---------------------------- MODULE Spec2Model ----------------------------
(***************************************************************************)
(* The evaluation DAG of deepeval (src/deepeval/metrics/dag/nodes.py):     *)
(* node construction and wiring, and the synchronous (_execute) and        *)
(* concurrent (_a_execute) execution of a DAG against a host metric; the   *)
(* OpenTelemetry span exporter (src/deepeval/tracing/otel/exporter.py) and *)
(* the Ollama model (src/deepeval/models/llms/ollama_model.py).            *)
(*                                                                         *)
(* Python values are encoded as follows.                                   *)
(*   Optional[T]      a set with at most one element, None being {}        *)
(*   bool / str / int verdicts: the tokens "True" "False" (bool),          *)
(*                    "a" "b" (str) and "1" (an int), told apart by        *)
(*                    IsBool / IsStr as isinstance tells them apart        *)
(*   object identity  the index of the object in the heap `nodes`          *)
(*   score / 10       the pair <<score, 10>> (numerator, denominator)      *)
(***************************************************************************)
EXTENDS Integers, Sequences, FiniteSets, TLC

VARIABLES
    nodes,      \* the heap: every node and metric object built so far, by identity
    lastBuild,  \* the last constructor call and how it ended
    metric,     \* the host metric: score, reason, evaluation_cost, _verbose_steps, flags
    model,      \* the model capability: calling convention, fixed responses, failures
    scenario,   \* which DAG was assembled (its constructor calls and its root)
    mode,       \* "sync" (_execute) or "async" (_a_execute)
    tasks,      \* the running coroutines / call stacks
    ready,      \* asyncio's queue of tasks created and not yet started
    calls,      \* top-level entry-point calls made by the caller so far
    stats,      \* per node: entry-point calls, payloads, model invocations, forwards
    syncFinal,  \* what the synchronous run of the same DAG left in the host metric
    trace_manager,  \* deepeval.tracing.trace_manager: active traces and spans, trace store
    exporter,   \* the ConfidentSpanExporter.export call in progress, or its result
    ollama      \* the OllamaModel.generate / a_generate call in progress, or its result

vars == <<nodes, lastBuild, metric, model, scenario, mode, tasks, ready,
          calls, stats, syncFinal, trace_manager, exporter, ollama>>

\* the variables of the DAG engine
dagVars == <<nodes, lastBuild, metric, model, scenario, mode, tasks, ready,
             calls, stats, syncFinal>>

\* what the DAG engine never touches: the tracing exporter and the Ollama model
serviceVars == <<trace_manager, exporter, ollama>>

runVars == <<metric, model, scenario, mode, tasks, ready, calls, stats, syncFinal,
             serviceVars>>

-----------------------------------------------------------------------------
(* Bounds of the model *)

\* most objects on the heap of the construction specification
MaxNodes == 3
\* longest children list handed to a constructor in the construction specification
MaxChildren == 2
\* most top-level entry-point calls the caller makes on one DAG in one mode
MaxCalls == 2

-----------------------------------------------------------------------------
(* Values *)

NoError == "ok"

BoolVerdicts == {"True", "False"}
StrVerdicts == {"a", "b"}
IntVerdicts == {"1"}
VerdictValues == BoolVerdicts \cup StrVerdicts \cup IntVerdicts

\* isinstance(v, bool)
IsBool(v) == v \in BoolVerdicts
\* isinstance(v, str)
IsStr(v) == v \in StrVerdicts

CompositeKinds == {"TaskNode", "BinaryJudgementNode", "NonBinaryJudgementNode"}
JudgementKinds == {"BinaryJudgementNode", "NonBinaryJudgementNode"}
NodeKinds == CompositeKinds \cup {"VerdictNode"}
\* the scored-evaluation capabilities a Verdict Node may hold as its child:
\* GEval, and any other BaseMetric
MetricKinds == {"GEval", "BaseMetric"}

\* the only element of a one-element set (the value of a set Optional)
The(S) == CHOOSE x \in S : TRUE

\* list.count(v)
Count(seq, v) == Cardinality({i \in 1..Len(seq) : seq[i] = v})

\* all sequences over S of length 0..n
SeqsUpTo(S, n) == UNION {[1..k -> S] : k \in 0..n}

-----------------------------------------------------------------------------
(* Node objects *)

\* A node object right after its dataclass __init__: BaseNode's class
\* attributes _indegree = 0 and _depth = 0, and the per-class defaults.
BaseNode(kind) ==
    [kind |-> kind, verdict |-> "", score |-> {}, child |-> {},
     children |-> <<>>, _parent |-> {}, _parents |-> <<>>,
     _indegree |-> 0, _depth |-> 0, _output |-> {}, _verdict |-> {},
     _verdict_options |-> {}]

\* isinstance(h[x], BaseNode)
IsBaseNode(h, x) == h[x].kind \in NodeKinds

\* BaseNode.set_parent: a Verdict Node keeps one parent (overwritten), the
\* others append to _parents (None and [] are both the empty sequence here:
\* the code only ever iterates it)
set_parent(h, c, p) ==
    IF h[c].kind = "VerdictNode" THEN [h EXCEPT ![c]._parent = {p}]
    ELSE IF h[c].kind \in CompositeKinds
         THEN [h EXCEPT ![c]._parents = Append(@, p)]
    ELSE h

increment_indegree(h, n) == [h EXCEPT ![n]._indegree = @ + 1]

decrement_indegree(h, n) == [h EXCEPT ![n]._indegree = @ - 1]

\* A metric object other than the host: a GEval or another BaseMetric, with
\* the name it was given, the model it is bound to, and what measure has
\* left in it (`measured` counts the calls of measure / a_measure on it).
Metric(kind, name, model_ref) ==
    [kind |-> kind, name |-> name, model |-> model_ref, verbose_mode |-> TRUE,
     score |-> {}, reason |-> {}, measured |-> 0]

\* the model the host metric is bound to, and the one a metric that is
\* handed to a Verdict Node was built with
HostModel == "metric.model"
OwnModel == "child.model"

-----------------------------------------------------------------------------
(* Constructors.  Each returns [error, heap]: the exception raised        *)
(* (NoError if none) and the heap afterwards.                              *)

\* a validation that forgets the range of the score
VerdictNode_post_init_noRange(score, child) ==
    IF score # {} /\ child # {} THEN "ValueError"
    ELSE IF score = {} /\ child = {} THEN "ValueError"
    ELSE NoError

VerdictNode_post_init(score, child) ==
    IF score # {} /\ child # {} THEN "ValueError"
    ELSE IF score = {} /\ child = {} THEN "ValueError"
    ELSE IF score # {} /\ ~(0 <= The(score) /\ The(score) <= 10) THEN "ValueError"
    ELSE NoError

NewVerdictNode(h, verdict, score, child) ==
    LET err == VerdictNode_post_init(score, child)
    IN  IF err # NoError THEN [error |-> err, heap |-> h]
        ELSE [error |-> NoError,
              heap |-> Append(h, [BaseNode("VerdictNode") EXCEPT
                                    !.verdict = verdict, !.score = score,
                                    !.child = child])]

\* a Task Node that takes any children
TaskNode_validate_anyKind(h, children) == NoError

\* TaskNode.__post_init__, first loop
TaskNode_validate(h, children) ==
    IF \E i \in 1..Len(children) : h[children[i]].kind = "VerdictNode"
    THEN "ValueError" ELSE NoError

\* TaskNode.__post_init__, second loop: p is the new node
RECURSIVE TaskNode_wire(_, _, _, _)
TaskNode_wire(h, p, children, i) ==
    IF i > Len(children) THEN h
    ELSE TaskNode_wire(increment_indegree(set_parent(h, children[i], p),
                                          children[i]),
                       p, children, i + 1)

NewTaskNode(h, children) ==
    LET err == TaskNode_validate(h, children)
        p == Len(h) + 1
    IN  IF err # NoError THEN [error |-> err, heap |-> h]
        ELSE [error |-> NoError,
              heap |-> TaskNode_wire(
                         Append(h, [BaseNode("TaskNode") EXCEPT
                                      !.children = children]),
                         p, children, 1)]

\* BinaryJudgementNode.__post_init__, the loop over the children
RECURSIVE BinaryChildError(_, _, _)
BinaryChildError(h, children, i) ==
    IF i > Len(children) THEN NoError
    ELSE IF h[children[i]].kind # "VerdictNode" THEN "TypeError"
    ELSE IF ~IsBool(h[children[i]].verdict) THEN "ValueError"
    ELSE BinaryChildError(h, children, i + 1)

\* a validation that forgets the one-True-one-False check
BinaryJudgementNode_validate_noPair(h, children) ==
    IF Len(children) # 2 THEN "ValueError"
    ELSE BinaryChildError(h, children, 1)

BinaryJudgementNode_validate(h, children) ==
    IF Len(children) # 2 THEN "ValueError"
    ELSE LET err == BinaryChildError(h, children, 1)
             verdicts == [i \in 1..Len(children) |-> h[children[i]].verdict]
         IN  IF err # NoError THEN err
             ELSE IF Count(verdicts, "True") # 1 \/ Count(verdicts, "False") # 1
                  THEN "ValueError"
             ELSE NoError

\* a wiring loop that forgets the nested increment
RECURSIVE JudgementNode_wire_noNested(_, _, _, _)
JudgementNode_wire_noNested(h, p, children, i) ==
    IF i > Len(children) THEN h
    ELSE JudgementNode_wire_noNested(
             increment_indegree(set_parent(h, children[i], p), children[i]),
             p, children, i + 1)

\* The wiring loop of BinaryJudgementNode.__post_init__ (the loop of
\* NonBinaryJudgementNode.__post_init__, lines 581-585, is the same code)
RECURSIVE JudgementNode_wire(_, _, _, _)
JudgementNode_wire(h, p, children, i) ==
    IF i > Len(children) THEN h
    ELSE LET c == children[i]
             h1 == increment_indegree(set_parent(h, c, p), c)
             h2 == IF h1[c].child # {} /\ IsBaseNode(h1, The(h1[c].child))
                   THEN increment_indegree(h1, The(h1[c].child))
                   ELSE h1
         IN  JudgementNode_wire(h2, p, children, i + 1)

\* a constructor that wires each child before it validates
NewBinaryJudgementNode_wiresFirst(h, children) ==
    LET err == BinaryJudgementNode_validate(h, children)
        p == Len(h) + 1
        wired == JudgementNode_wire(
                     Append(h, [BaseNode("BinaryJudgementNode") EXCEPT
                                  !.children = children]),
                     p, children, 1)
    IN  IF err # NoError
        THEN [error |-> err, heap |-> SubSeq(wired, 1, Len(h))]
        ELSE [error |-> NoError, heap |-> wired]

NewBinaryJudgementNode(h, children) ==
    LET err == BinaryJudgementNode_validate(h, children)
        p == Len(h) + 1
    IN  IF err # NoError THEN [error |-> err, heap |-> h]
        ELSE [error |-> NoError,
              heap |-> JudgementNode_wire(
                         Append(h, [BaseNode("BinaryJudgementNode") EXCEPT
                                      !.children = children]),
                         p, children, 1)]

\* a loop over the children that forgets the duplicate check
RECURSIVE NonBinaryChildren_noDuplicateCheck(_, _, _, _)
NonBinaryChildren_noDuplicateCheck(h, children, i, verdicts_set) ==
    IF i > Len(children) THEN [error |-> NoError, verdicts_set |-> verdicts_set]
    ELSE LET c == h[children[i]]
         IN  IF c.kind # "VerdictNode"
             THEN [error |-> "TypeError", verdicts_set |-> verdicts_set]
             ELSE IF ~IsStr(c.verdict)
             THEN [error |-> "ValueError", verdicts_set |-> verdicts_set]
             ELSE NonBinaryChildren_noDuplicateCheck(h, children, i + 1,
                                    verdicts_set \cup {c.verdict})

\* NonBinaryJudgementNode.__post_init__, the loop over the children:
\* [error, verdicts_set] after the children from i on
RECURSIVE NonBinaryChildren(_, _, _, _)
NonBinaryChildren(h, children, i, verdicts_set) ==
    IF i > Len(children) THEN [error |-> NoError, verdicts_set |-> verdicts_set]
    ELSE LET c == h[children[i]]
         IN  IF c.kind # "VerdictNode"
             THEN [error |-> "TypeError", verdicts_set |-> verdicts_set]
             ELSE IF ~IsStr(c.verdict)
             THEN [error |-> "ValueError", verdicts_set |-> verdicts_set]
             ELSE IF c.verdict \in verdicts_set
             THEN [error |-> "ValueError", verdicts_set |-> verdicts_set]
             ELSE NonBinaryChildren(h, children, i + 1,
                                    verdicts_set \cup {c.verdict})

NonBinaryJudgementNode_validate(h, children) ==
    IF Len(children) = 0 THEN "ValueError"
    ELSE NonBinaryChildren(h, children, 1, {}).error

NewNonBinaryJudgementNode(h, children) ==
    LET err == NonBinaryJudgementNode_validate(h, children)
        p == Len(h) + 1
    IN  IF err # NoError THEN [error |-> err, heap |-> h]
        ELSE [error |-> NoError,
              heap |-> JudgementNode_wire(
                         Append(h, [BaseNode("NonBinaryJudgementNode") EXCEPT
                                      !.children = children,
                                      !._verdict_options =
                                          NonBinaryChildren(h, children, 1, {}).verdicts_set]),
                         p, children, 1)]

\* One constructor call, as data: op names the class
Call(op, verdict, score, child, children) ==
    [op |-> op, verdict |-> verdict, score |-> score, child |-> child,
     children |-> children]

\* the caller builds a metric of its own, to hand it to a Verdict Node
NewMetric(h, kind, name) ==
    [error |-> NoError, heap |-> Append(h, Metric(kind, name, OwnModel))]

Construct(h, c) ==
    CASE c.op = "VerdictNode" -> NewVerdictNode(h, c.verdict, c.score, c.child)
      [] c.op \in MetricKinds -> NewMetric(h, c.op, c.verdict)
      [] c.op = "TaskNode" -> NewTaskNode(h, c.children)
      [] c.op = "BinaryJudgementNode" -> NewBinaryJudgementNode(h, c.children)
      [] c.op = "NonBinaryJudgementNode" -> NewNonBinaryJudgementNode(h, c.children)

\* A sequence of constructor calls, run in order from heap h
RECURSIVE Build(_, _, _)
Build(h, prog, i) ==
    IF i > Len(prog) THEN h ELSE Build(Construct(h, prog[i]).heap, prog, i + 1)

-----------------------------------------------------------------------------
(* The DAGs that are executed.  Each is assembled by the constructors      *)
(* above, bottom-up, so the dependency counts are the ones the code sets.  *)

Leaf(verdict, score) == Call("VerdictNode", verdict, {score}, {}, <<>>)
Wrap(verdict, child) == Call("VerdictNode", verdict, {}, {child}, <<>>)
Composite(op, children) == Call(op, "", {}, {}, children)
\* a metric of the given kind and name (the name travels in the verdict slot)
SubMetric(kind, name) == Call(kind, name, {}, {}, <<>>)

\* one Binary Judgment root with two terminal Verdict Nodes
DagBinary ==
    [prog |-> << Leaf("True", 10), Leaf("False", 0),
                 Composite("BinaryJudgementNode", <<1, 2>>) >>,
     root |-> 3]

\* a Task Node over a Non-Binary Judgment with two options: "a" is a terminal
\* Verdict Node, "b" wraps a Task Node (node 3) whose only child is a
\* Non-Binary Judgment with the single option "b", a terminal Verdict Node
DagNonBinary ==
    [prog |-> << Leaf("b", 5),
                 Composite("NonBinaryJudgementNode", <<1>>),
                 Composite("TaskNode", <<2>>),
                 Leaf("a", 7), Wrap("b", 3),
                 Composite("NonBinaryJudgementNode", <<4, 5>>),
                 Composite("TaskNode", <<6>>) >>,
     root |-> 7]

\* a Task Node with two Binary Judgment children; the True Verdict Node of
\* each wraps the same downstream Task Node (node 1), the False one of each
\* is a terminal leaf
DagConverging ==
    [prog |-> << Composite("TaskNode", <<>>),
                 Wrap("True", 1), Leaf("False", 2),
                 Composite("BinaryJudgementNode", <<2, 3>>),
                 Wrap("True", 1), Leaf("False", 4),
                 Composite("BinaryJudgementNode", <<5, 6>>),
                 Composite("TaskNode", <<4, 7>>) >>,
     root |-> 8]

\* one Binary Judgment root: its True Verdict Node holds a GEval, its False
\* one another metric
DagMetrics ==
    [prog |-> << SubMetric("GEval", "Coherence"), Wrap("True", 1),
                 SubMetric("BaseMetric", "Relevancy"), Wrap("False", 3),
                 Composite("BinaryJudgementNode", <<2, 4>>) >>,
     root |-> 5]

Scenarios == {DagBinary, DagNonBinary, DagConverging, DagMetrics}

\* the DAG of a scenario as the constructors leave it
Constructed(scn) == Build(<<>>, scn.prog, 1)

-----------------------------------------------------------------------------
(* The host metric and the model capability *)

Conventions == {"native", "schema", "raw"}

MetricInit(include_reason, convention) ==
    [score |-> {}, reason |-> {}, evaluation_cost |-> 0,
     _verbose_steps |-> <<>>, include_reason |-> include_reason,
     using_native_model |-> (convention = "native"), model |-> HostModel]

\* the responses a model may be fixed to give for the nodes of heap h: a
\* verdict for every judgment node (a boolean, or one of the node's options)
Responses(h) ==
    [n \in 1..Len(h) |->
        IF h[n].kind = "BinaryJudgementNode" THEN BoolVerdicts
        ELSE IF h[n].kind = "NonBinaryJudgementNode" THEN h[n]._verdict_options
        ELSE {""}]

\* every function that picks one element of S[n] for each n
Choices(S) == {f \in [DOMAIN S -> UNION {S[n] : n \in DOMAIN S}] :
                  \A n \in DOMAIN S : f[n] \in S[n]}

\* the nodes on the heap
NodeIds == {n \in 1..Len(nodes) : IsBaseNode(nodes, n)}

\* the incremental cost the model reports for the invocation made by node n
Cost(n) == n

\* the reason the model returns for a reason prompt: a function of the prompt
ReasonFor(prompt) == prompt

\* what has been observed of a freshly built DAG h: nothing yet; `built` keeps
\* the dependency counts construction has left
ZeroStats(h) ==
    LET zero == [n \in 1..Len(h) |-> 0]
    IN  [built |-> [n \in 1..Len(h) |->
                        IF IsBaseNode(h, n) THEN h[n]._indegree ELSE 0],
         arrivals |-> zero, fired |-> zero, invocations |-> zero,
         fallbacks |-> zero,
         forwarded |-> zero, scoreWrites |-> zero, reasonWrites |-> zero,
         incoming |-> [n \in 1..Len(h) |-> {}],
         lastScore |-> {}, lastReason |-> {}]

IdleBuild == [call |-> Call("", "", {}, {}, <<>>), error |-> NoError]

\* the trace manager of a process that has traced nothing, with no export
\* call and no Ollama call made
NoTraces == [active_traces |-> <<>>, active_spans |-> <<>>, traces |-> <<>>,
             ended |-> <<>>, environment |-> {}]

IdleExport == [pc |-> "idle", spans |-> <<>>, api_key |-> {},
               spans_wrappers_list |-> <<>>, i |-> 0, started |-> <<>>,
               added |-> <<>>, result |-> {}]

IdleOllama == [pc |-> "idle", calls |-> 0, method |-> "", request |-> {},
               schema |-> {}, response |-> {}, returned |-> {}, raised |-> {},
               res |-> {}]

ServicesIdle ==
    /\ trace_manager = NoTraces
    /\ exporter = IdleExport
    /\ ollama = IdleOllama

-----------------------------------------------------------------------------
(* Call stacks and tasks *)

Frame(n, d) ==
    [node |-> n, depth |-> d, pc |-> "enter", i |-> 0, kids |-> {}, prompt |-> {}]

\* `ended` is the number of tasks that existed when the task finished (0
\* while it has not): the tasks created before its done-callbacks were queued
NewTask(n, d, status, waiter) ==
    [stack |-> <<Frame(n, d)>>, status |-> status, waiter |-> waiter,
     exc |-> "", ended |-> 0]

Last(s) == s[Len(s)]
Front(s) == SubSeq(s, 1, Len(s) - 1)
SetLast(s, f) == [s EXCEPT ![Len(s)] = f]

Top(t) == Last(tasks[t].stack)

Finished(t) == tasks[t].status \in {"done", "error"}
Quiescent == \A t \in DOMAIN tasks : Finished(t)

\* the task may run the entry of its top frame now: it is running, or it is
\* the next task the event loop starts
CanEnter(t) ==
    /\ tasks[t].stack # <<>>
    /\ Top(t).pc = "enter"
    /\ \/ tasks[t].status = "running"
       \/ tasks[t].status = "ready" /\ ready # <<>> /\ Head(ready) = t

Started == IF ready # <<>> THEN Tail(ready) ELSE ready

\* a Verdict Node has nothing left to do once its nested child returns
RECURSIVE Unwind(_)
Unwind(stack) ==
    IF stack = <<>> THEN stack
    ELSE IF Last(stack).pc = "nested" THEN Unwind(Front(stack))
    ELSE stack

\* a return that never completes the task it ends
Return_neverDone(task) ==
    LET s == Unwind(Front(task.stack))
    IN  [task EXCEPT !.stack = s, !.status = "running"]

\* the top frame returns to its caller
Return(task) ==
    LET s == Unwind(Front(task.stack))
    IN  [task EXCEPT !.stack = s,
                     !.status = IF s = <<>> THEN "done" ELSE "running",
                     !.ended = IF s = <<>> THEN Len(tasks) ELSE 0]

\* the top frame raises: nothing on the stack catches it
Raise(task, exc) ==
    [task EXCEPT !.stack = <<>>, !.status = "error", !.exc = exc,
                 !.ended = Len(tasks)]

\* the done-callbacks of finished task k have run: the event loop runs its
\* callbacks in the order they were queued, so every task that was created
\* before k finished has taken its first step
CallbacksRan(k) == \A i \in DOMAIN ready : ready[i] > tasks[k].ended

Bump(st, field, n) == [st EXCEPT ![field][n] = @ + 1]

Max(a, b) == IF a >= b THEN a ELSE b

\* a delegation that calls the Verdict Node again instead of its child
Delegate_toItself(h, v, depth) == Frame(v, depth)

\* a delegation that counts the Verdict Node as a level
Delegate_deeper(h, v, depth) == Frame(The(h[v].child), depth + 1)

\* self.child._execute(metric=metric, test_case=test_case, depth=depth): the
\* call Verdict Node v makes to its node child
Delegate(h, v, depth) == Frame(The(h[v].child), depth)

\* observed: an arrival at n with the given incoming depth
Arrive(st, n, depth) ==
    [Bump(st, "arrivals", n) EXCEPT !.incoming[n] = @ \cup {depth}]

-----------------------------------------------------------------------------
(* Pieces of the entry points *)

\* a gate that never waits
StillPending_never(h, n) == FALSE

\* a gate that is off by one: `if self._indegree >= 0: return`
StillPending_offByOne(h, n) == h[n]._indegree >= 0

\* `if self._indegree > 0: return`, read after decrement_indegree(self)
StillPending(h, n) == h[n]._indegree > 0

\* the depth of the latest arrival, whatever the node had resolved before
UpdateDepth_latest(h, n, depth) == [h EXCEPT ![n]._depth = depth]

\* self._depth = max(0, self._depth, depth)
UpdateDepth(h, n, depth) == [h EXCEPT ![n]._depth = Max(0, Max(@, depth))]

\* isinstance(self._parent, NonBinaryJudgementNode) or isinstance(self._parent,
\* BinaryJudgementNode)
HasJudgementParent(h, v) ==
    h[v]._parent # {} /\ h[The(h[v]._parent)].kind \in JudgementKinds

\* self._parent._verdict is still None: reading .verdict raises AttributeError
GateRaises(h, v) ==
    HasJudgementParent(h, v) /\ h[The(h[v]._parent)]._verdict = {}

\* a gate that lets every Verdict Node through
Pruned_never(h, v) == FALSE

\* a gate with the comparison turned round: it prunes the matching branch
Pruned_inverted(h, v) ==
    HasJudgementParent(h, v) /\ h[The(h[v]._parent)]._verdict = {h[v].verdict}

\* self._parent._verdict.verdict != self.verdict
Pruned(h, v) ==
    HasJudgementParent(h, v) /\ h[The(h[v]._parent)]._verdict # {h[v].verdict}

\* One fragment of the verbose log.  `node` stands for the text that tells
\* the fragments of two nodes apart (label, criteria, verdict); `level` is
\* the "Level == {depth}" of the banner.
construct_node_verbose_log(h, n, depth, node_metric) ==
    [node |-> n, kind |-> h[n].kind, level |-> depth,
     verdict |-> IF h[n].kind \in JudgementKinds THEN h[n]._verdict
                 ELSE IF h[n].kind = "VerdictNode" THEN {h[n].verdict}
                 ELSE {},
     output |-> IF node_metric # {} THEN {h[The(node_metric)].name}
                ELSE h[n]._output]

\* a judgment node that keeps the resolved verdict in its own `verdict` too
SetResult_overVerdict(h, n) ==
    IF h[n].kind = "TaskNode" THEN [h EXCEPT ![n]._output = {"output"}]
    ELSE [h EXCEPT ![n]._verdict = {model.verdicts[n]},
                   ![n].verdict = model.verdicts[n]]

\* a payload that leaves the result of the model where it was
SetResult_unset(h, n) == h

\* self._output = res.output / self._verdict = res
SetResult(h, n) ==
    IF h[n].kind = "TaskNode" THEN [h EXCEPT ![n]._output = {"output"}]
    ELSE [h EXCEPT ![n]._verdict = {model.verdicts[n]}]

\* a model invocation block that invokes a raising native model once more
generate_retries(n) ==
    IF model.convention = "native"
    THEN [invocations |-> IF n \in model.failing THEN 2 ELSE 1,
          fallbacks |-> 0, error |-> NoError]
    ELSE IF model.convention = "schema"
    THEN [invocations |-> 1, fallbacks |-> 0, error |-> NoError]
    ELSE [invocations |-> 2, fallbacks |-> 1,
          error |-> IF n \in model.unparsable THEN "ValueError" ELSE NoError]

\* a model invocation block without the `except TypeError` branch
generate_noFallback(n) ==
    IF model.convention = "native"
    THEN [invocations |-> 1, fallbacks |-> 0,
          error |-> IF n \in model.failing THEN "ModelError" ELSE NoError]
    ELSE IF model.convention = "schema"
    THEN [invocations |-> 1, fallbacks |-> 0, error |-> NoError]
    ELSE [invocations |-> 1, fallbacks |-> 0, error |-> "TypeError"]

\* The model invocation block of node n (`if metric.using_native_model: ...
\* else: try: ... except TypeError: ...`): the invocations it makes, how many
\* of them are the raw fallback, and the error that leaves it.  A native model
\* is invoked once and may raise; a generic model that takes a schema is
\* invoked once; a generic model that does not raises TypeError on the
\* schema-aware invocation, is invoked once more without the schema, and its
\* text is parsed by trimAndLoadJson, which raises on text it cannot parse.
generate(n) ==
    IF model.convention = "native"
    THEN [invocations |-> 1, fallbacks |-> 0,
          error |-> IF n \in model.failing THEN "ModelError" ELSE NoError]
    ELSE IF model.convention = "schema"
    THEN [invocations |-> 1, fallbacks |-> 0, error |-> NoError]
    ELSE [invocations |-> 2, fallbacks |-> 1,
          error |-> IF n \in model.unparsable THEN "ValueError" ELSE NoError]

\* the invocations of node n that are made after the first one
NoteFallback(st, n) ==
    [st EXCEPT !.invocations[n] = @ + generate(n).invocations - 1,
               !.fallbacks[n] = @ + generate(n).fallbacks]

\* all invocations of the model invocation block of node n
NoteInvocations(st, n) == NoteFallback(Bump(st, "invocations", n), n)

\* an accumulator that takes the cost of an invocation twice
AddCost_twice(m, n) ==
    IF m.using_native_model THEN [m EXCEPT !.evaluation_cost = @ + 2 * Cost(n)]
    ELSE m

\* metric.evaluation_cost += cost, on the native path only
AddCost(m, n) ==
    IF m.using_native_model THEN [m EXCEPT !.evaluation_cost = @ + Cost(n)]
    ELSE m

\* a log that grows at the front
AppendLog_prepend(m, fragment) ==
    [m EXCEPT !._verbose_steps = <<fragment>> \o @]

AppendLog(m, fragment) == [m EXCEPT !._verbose_steps = Append(@, fragment)]

\* a reason prompt that leaves the verbose log out
ReasonPrompt_noSteps(m) == [steps |-> <<>>, score |-> m.score]

\* VerdictNodeTemplate.generate_reason(verbose_steps, score, name)
ReasonPrompt(m) == [steps |-> m._verbose_steps, score |-> m.score]

\* a leaf that forgets to normalise: metric.score = self.score
LeafScore_raw(h, v, depth, m) ==
    [AppendLog(m, construct_node_verbose_log(h, v, depth, {}))
        EXCEPT !.score = {<<The(h[v].score), 1>>}]

\* the terminal leaf: append the log, then metric.score = self.score / 10
LeafScore(h, v, depth, m) ==
    [AppendLog(m, construct_node_verbose_log(h, v, depth, {}))
        EXCEPT !.score = {<<The(h[v].score), 10>>}]

\* isinstance(self.child, GEval) or isinstance(self.child, BaseMetric)
HoldsMetric(h, v) == h[v].child # {} /\ h[The(h[v].child)].kind \in MetricKinds

\* a fresh metric object built as metric c was
copy_metrics(h, c) == Metric(h[c].kind, h[c].name, h[c].model)

\* a Verdict Node that measures the metric it holds
SubEvaluate_inPlace(h, v, m) == [heap |-> h, copy |-> The(h[v].child)]

\* copied_g_eval = GEval(name=self.child.name, ..., model=metric.model,
\* verbose_mode=False), or copied_metric = copy_metrics([self.child])[0] with
\* verbose_mode = False: the heap with the copy on it, and the copy
SubEvaluate(h, v, m) ==
    LET c == The(h[v].child)
        made == IF h[c].kind = "GEval" THEN Metric("GEval", h[c].name, m.model)
                ELSE copy_metrics(h, c)
    IN  [heap |-> Append(h, [made EXCEPT !.verbose_mode = FALSE]),
         copy |-> Len(h) + 1]

\* measure / a_measure of metric object e, run to completion: the score and
\* the reason are the metric's own, obtained from the model it is bound to
measure(h, e) ==
    [h EXCEPT ![e].score = {<<IF h[e].kind = "GEval" THEN 3 ELSE 6, 10>>},
              ![e].reason = {[by |-> h[e].name, model |-> h[e].model]},
              ![e].measured = @ + 1]

\* the Verdict Node passes its gates and holds a metric
Measures(h, v) ==
    /\ ~StillPending(h, v)
    /\ ~GateRaises(h, v)
    /\ ~Pruned(h, v)
    /\ HoldsMetric(h, v)

\* after the measure: append the log, metric.score = copied.score, and
\* `if metric.include_reason: metric.reason = copied.reason`
AdoptResult(h, v, depth, e, m) ==
    LET m2 == [AppendLog(m, construct_node_verbose_log(h, v, depth, {e}))
                  EXCEPT !.score = h[e].score]
    IN  IF m.include_reason THEN [m2 EXCEPT !.reason = h[e].reason] ELSE m2

NoteScore(st, v) ==
    [Bump(st, "scoreWrites", v) EXCEPT !.lastScore = {v}]

NoteReason(st, v) ==
    [Bump(st, "reasonWrites", v) EXCEPT !.lastReason = {v}]

\* observed: Verdict Node v has adopted the result of a measured copy
NoteAdopted(st, v, m) ==
    IF m.include_reason THEN NoteReason(NoteScore(st, v), v) ELSE NoteScore(st, v)

-----------------------------------------------------------------------------
(* The caller *)

\* the caller invokes the entry point of node n with depth 0, in the
\* current mode, once the previous call has returned; an exception that
\* reaches the caller is not caught there
Invoke(n) ==
    /\ Quiescent
    /\ \A t \in DOMAIN tasks : tasks[t].status # "error"
    /\ Len(calls) < MaxCalls
    /\ calls' = Append(calls, n)
    /\ tasks' = << NewTask(n, 0, IF mode = "sync" THEN "running" ELSE "ready", 0) >>
    /\ ready' = IF mode = "sync" THEN <<>> ELSE <<1>>
    /\ UNCHANGED <<nodes, lastBuild, serviceVars, metric, model, scenario, mode, stats, syncFinal>>

\* after one synchronous run of the root, the caller assembles the same DAG
\* afresh and goes on in concurrent mode against a fresh host metric
RunConcurrently ==
    /\ mode = "sync"
    /\ Quiescent
    /\ calls = <<scenario.root>>
    /\ syncFinal' = {[score |-> metric.score, reason |-> metric.reason,
                      evaluation_cost |-> metric.evaluation_cost,
                      status |-> tasks[1].status]}
    /\ mode' = "async"
    /\ nodes' = Constructed(scenario)
    /\ metric' = MetricInit(metric.include_reason, model.convention)
    /\ tasks' = <<>>
    /\ ready' = <<>>
    /\ calls' = <<>>
    /\ stats' = ZeroStats(Constructed(scenario))
    /\ UNCHANGED <<lastBuild, serviceVars, model, scenario>>

-----------------------------------------------------------------------------
(* Synchronous mode *)

\* TaskNode._execute up to the loop over the children; the bodies of
\* BinaryJudgementNode._execute and NonBinaryJudgementNode._execute are the
\* same code with another template, schema and result field
Node_execute(t) ==
    LET f == Top(t)
        n == f.node
        h == decrement_indegree(UpdateDepth(nodes, n, f.depth), n)
        st == Arrive(stats, n, f.depth)
    IN  /\ mode = "sync"
        /\ CanEnter(t)
        /\ IF StillPending(h, n)
           THEN /\ nodes' = h
                /\ tasks' = [tasks EXCEPT ![t] = Return(@)]
                /\ stats' = st
                /\ UNCHANGED metric
           ELSE IF generate(n).error # NoError
           THEN /\ nodes' = h
                /\ tasks' = [tasks EXCEPT ![t] = Raise(@, generate(n).error)]
                /\ stats' = NoteInvocations(Bump(st, "fired", n), n)
                /\ UNCHANGED metric
           ELSE LET h3 == SetResult(h, n)
                IN  /\ nodes' = h3
                    /\ metric' = AppendLog(AddCost(metric, n),
                                   construct_node_verbose_log(h3, n, h3[n]._depth, {}))
                    /\ tasks' = [tasks EXCEPT ![t].stack =
                                    SetLast(@, [f EXCEPT !.pc = "iter", !.i = 1])]
                    /\ stats' = NoteInvocations(Bump(st, "fired", n), n)
        /\ UNCHANGED <<lastBuild, serviceVars, model, scenario, mode, ready, calls, syncFinal>>

TaskNode_execute(t) ==
    /\ CanEnter(t)
    /\ nodes[Top(t).node].kind = "TaskNode"
    /\ Node_execute(t)

BinaryJudgementNode_execute(t) ==
    /\ CanEnter(t)
    /\ nodes[Top(t).node].kind = "BinaryJudgementNode"
    /\ Node_execute(t)

NonBinaryJudgementNode_execute(t) ==
    /\ CanEnter(t)
    /\ nodes[Top(t).node].kind = "NonBinaryJudgementNode"
    /\ Node_execute(t)

\* a loop that takes the children from the last to the first
NextChild_reversed(h, n, i) == h[n].children[Len(h[n].children) + 1 - i]

\* `for children in self.children`: the child of the i-th turn of the loop
NextChild(h, n, i) == h[n].children[i]

\* `for children in self.children: children._execute(..., depth=self._depth + 1)`:
\* one turn of the loop, or the return after the last child
ExecuteChildren(t) ==
    /\ mode = "sync"
    /\ tasks[t].status = "running"
    /\ tasks[t].stack # <<>>
    /\ Top(t).pc = "iter"
    /\ LET f == Top(t)
           n == f.node
       IN  IF f.i <= Len(nodes[n].children)
           THEN /\ tasks' = [tasks EXCEPT ![t].stack =
                               Append(SetLast(@, [f EXCEPT !.i = @ + 1]),
                                      Frame(NextChild(nodes, n, f.i),
                                            nodes[n]._depth + 1))]
                /\ stats' = Bump(stats, "forwarded", n)
           ELSE /\ tasks' = [tasks EXCEPT ![t] = Return(@)]
                /\ UNCHANGED stats
    /\ UNCHANGED <<nodes, lastBuild, serviceVars, metric, model, scenario, mode, ready,
                   calls, syncFinal>>

\* VerdictNode._execute (with _generate_reason), for a score or a node child
VerdictNode_execute(t) ==
    /\ mode = "sync"
    /\ CanEnter(t)
    /\ nodes[Top(t).node].kind = "VerdictNode"
    /\ LET f == Top(t)
           v == f.node
           h == decrement_indegree(nodes, v)
           st == Arrive(stats, v, f.depth)
           m == LeafScore(h, v, f.depth, metric)
           sub == SubEvaluate(h, v, metric)
           h2 == measure(sub.heap, sub.copy)
       IN  /\ nodes' = IF Measures(h, v) THEN h2 ELSE h
           /\ IF StillPending(h, v)
              THEN /\ tasks' = [tasks EXCEPT ![t] = Return(@)]
                   /\ stats' = st
                   /\ UNCHANGED metric
              ELSE IF GateRaises(h, v)
              THEN /\ tasks' = [tasks EXCEPT ![t] = Raise(@, "AttributeError")]
                   /\ stats' = st
                   /\ UNCHANGED metric
              ELSE IF Pruned(h, v)
              THEN /\ tasks' = [tasks EXCEPT ![t] = Return(@)]
                   /\ stats' = st
                   /\ UNCHANGED metric
              ELSE IF HoldsMetric(h, v)
              THEN /\ metric' = AdoptResult(h2, v, f.depth, sub.copy, metric)
                   /\ tasks' = [tasks EXCEPT ![t] = Return(@)]
                   /\ stats' = NoteAdopted(Bump(st, "fired", v), v, metric)
              ELSE IF h[v].child # {}
              THEN /\ tasks' = [tasks EXCEPT ![t].stack =
                                  Append(SetLast(@, [f EXCEPT !.pc = "nested"]),
                                         Delegate(h, v, f.depth))]
                   /\ stats' = Bump(Bump(st, "fired", v), "forwarded", v)
                   /\ UNCHANGED metric
              ELSE IF ~metric.include_reason
              THEN /\ metric' = m
                   /\ tasks' = [tasks EXCEPT ![t] = Return(@)]
                   /\ stats' = NoteScore(Bump(st, "fired", v), v)
              ELSE IF generate(v).error # NoError
              THEN /\ metric' = m
                   /\ tasks' = [tasks EXCEPT ![t] = Raise(@, generate(v).error)]
                   /\ stats' = NoteInvocations(NoteScore(Bump(st, "fired", v), v), v)
              ELSE /\ metric' = [AddCost(m, v) EXCEPT
                                   !.reason = {ReasonFor(ReasonPrompt(m))}]
                   /\ tasks' = [tasks EXCEPT ![t] = Return(@)]
                   /\ stats' = NoteReason(
                                  NoteInvocations(NoteScore(Bump(st, "fired", v), v), v),
                                  v)
    /\ UNCHANGED <<lastBuild, serviceVars, model, scenario, mode, ready, calls, syncFinal>>

-----------------------------------------------------------------------------
(* Concurrent mode.  A task runs without interruption from one await to    *)
(* the next: the awaits are the model invocation and asyncio.gather.       *)
(* asyncio starts the tasks gather creates in the order it created them;   *)
(* a suspended model invocation may return at any later time.  `await      *)
(* self.child._a_execute(...)` runs the child in the same task.            *)

\* the queue of tasks to start, after task t has taken a step
ReadyAfter(t) == IF tasks[t].status = "ready" THEN Tail(ready) ELSE ready

\* the top frame of the task suspends in state f
Suspend(task, f) ==
    [task EXCEPT !.stack = SetLast(@, f), !.status = "running"]

\* TaskNode._a_execute up to `await metric.model.a_generate(...)`; the bodies of
\* BinaryJudgementNode._a_execute and NonBinaryJudgementNode._a_execute are
\* the same code with another template, schema and result field
Node_a_execute(t) ==
    LET f == Top(t)
        n == f.node
        h == decrement_indegree(UpdateDepth(nodes, n, f.depth), n)
        st == Arrive(stats, n, f.depth)
    IN  /\ mode = "async"
        /\ CanEnter(t)
        /\ nodes' = h
        /\ ready' = ReadyAfter(t)
        /\ IF StillPending(h, n)
           THEN /\ tasks' = [tasks EXCEPT ![t] = Return(@)]
                /\ stats' = st
           ELSE /\ tasks' = [tasks EXCEPT ![t] = Suspend(@, [f EXCEPT !.pc = "gen"])]
                /\ stats' = Bump(Bump(st, "fired", n), "invocations", n)
        /\ UNCHANGED <<lastBuild, serviceVars, metric, model, scenario, mode, calls, syncFinal>>

TaskNode_a_execute(t) ==
    /\ CanEnter(t)
    /\ nodes[Top(t).node].kind = "TaskNode"
    /\ Node_a_execute(t)

BinaryJudgementNode_a_execute(t) ==
    /\ CanEnter(t)
    /\ nodes[Top(t).node].kind = "BinaryJudgementNode"
    /\ Node_a_execute(t)

NonBinaryJudgementNode_a_execute(t) ==
    /\ CanEnter(t)
    /\ nodes[Top(t).node].kind = "NonBinaryJudgementNode"
    /\ Node_a_execute(t)

\* the tasks asyncio.gather creates for the children of n, awaited by task t
Gathered(h, n, t, first) ==
    [i \in 1..Len(h[n].children) |->
        NewTask(h[n].children[i], h[n]._depth + 1, "ready", t)]

\* the model invocation of a composite node returns (or raises): the rest
\* of _a_execute up to `await asyncio.gather(...)`
a_generate_returns(t) ==
    /\ mode = "async"
    /\ tasks[t].status = "running"
    /\ tasks[t].stack # <<>>
    /\ Top(t).pc = "gen"
    /\ LET f == Top(t)
           n == f.node
           h == SetResult(nodes, n)
           k == Len(nodes[n].children)
           first == Len(tasks)
       IN  IF generate(n).error # NoError
           THEN /\ tasks' = [tasks EXCEPT ![t] = Raise(@, generate(n).error)]
                /\ stats' = NoteFallback(stats, n)
                /\ UNCHANGED <<nodes, metric, ready>>
           ELSE /\ nodes' = h
                /\ metric' = AppendLog(AddCost(metric, n),
                               construct_node_verbose_log(h, n, h[n]._depth, {}))
                /\ tasks' = [tasks EXCEPT ![t].stack =
                                SetLast(@, [f EXCEPT !.pc = "join",
                                                     !.kids = (first + 1)..(first + k)])]
                            \o Gathered(h, n, t, first)
                /\ ready' = ready \o [i \in 1..k |-> first + i]
                /\ stats' = [NoteFallback(stats, n) EXCEPT !.forwarded[n] = @ + k]
    /\ UNCHANGED <<lastBuild, serviceVars, model, scenario, mode, calls, syncFinal>>

\* every awaitable of the gather has finished without an exception
gather_returns(t) ==
    /\ mode = "async"
    /\ tasks[t].status = "running"
    /\ tasks[t].stack # <<>>
    /\ Top(t).pc = "join"
    /\ \A k \in Top(t).kids : tasks[k].status = "done" /\ CallbacksRan(k)
    /\ tasks' = [tasks EXCEPT ![t] = Return(@)]
    /\ UNCHANGED <<nodes, lastBuild, serviceVars, metric, model, scenario, mode, ready,
                   calls, stats, syncFinal>>

\* asyncio.gather with return_exceptions=False: the first exception of an
\* awaitable is propagated to the awaiting task at once; the other awaitables
\* are not cancelled and go on running
gather_raises(t) ==
    /\ mode = "async"
    /\ tasks[t].status = "running"
    /\ tasks[t].stack # <<>>
    /\ Top(t).pc = "join"
    /\ \E k \in Top(t).kids :
          /\ tasks[k].status = "error"
          /\ CallbacksRan(k)
          /\ tasks' = [tasks EXCEPT ![t] = Raise(@, tasks[k].exc)]
    /\ UNCHANGED <<nodes, lastBuild, serviceVars, metric, model, scenario, mode, ready,
                   calls, stats, syncFinal>>

\* VerdictNode._a_execute up to `await self._a_generate_reason(...)` or to
\* the entry of the nested child
VerdictNode_a_execute(t) ==
    /\ mode = "async"
    /\ CanEnter(t)
    /\ nodes[Top(t).node].kind = "VerdictNode"
    /\ LET f == Top(t)
           v == f.node
           h == decrement_indegree(nodes, v)
           st == Arrive(stats, v, f.depth)
           m == LeafScore(h, v, f.depth, metric)
           sub == SubEvaluate(h, v, metric)
       IN  /\ nodes' = IF Measures(h, v) THEN sub.heap ELSE h
           /\ ready' = ReadyAfter(t)
           /\ IF StillPending(h, v)
              THEN /\ tasks' = [tasks EXCEPT ![t] = Return(@)]
                   /\ stats' = st
                   /\ UNCHANGED metric
              ELSE IF GateRaises(h, v)
              THEN /\ tasks' = [tasks EXCEPT ![t] = Raise(@, "AttributeError")]
                   /\ stats' = st
                   /\ UNCHANGED metric
              ELSE IF Pruned(h, v)
              THEN /\ tasks' = [tasks EXCEPT ![t] = Return(@)]
                   /\ stats' = st
                   /\ UNCHANGED metric
              ELSE IF HoldsMetric(h, v)
              THEN /\ tasks' = [tasks EXCEPT ![t] =
                                  Suspend(@, [f EXCEPT !.pc = "measure",
                                                       !.i = sub.copy])]
                   /\ stats' = Bump(st, "fired", v)
                   /\ UNCHANGED metric
              ELSE IF h[v].child # {}
              THEN /\ tasks' = [tasks EXCEPT ![t] =
                                  [@ EXCEPT !.status = "running",
                                            !.stack = Append(SetLast(@, [f EXCEPT !.pc = "nested"]),
                                                             Delegate(h, v, f.depth))]]
                   /\ stats' = Bump(Bump(st, "fired", v), "forwarded", v)
                   /\ UNCHANGED metric
              ELSE IF ~metric.include_reason
              THEN /\ metric' = m
                   /\ tasks' = [tasks EXCEPT ![t] = Return(@)]
                   /\ stats' = NoteScore(Bump(st, "fired", v), v)
              ELSE /\ metric' = m
                   /\ tasks' = [tasks EXCEPT ![t] =
                                  Suspend(@, [f EXCEPT !.pc = "reason",
                                                       !.prompt = {ReasonPrompt(m)}])]
                   /\ stats' = Bump(NoteScore(Bump(st, "fired", v), v),
                                    "invocations", v)
    /\ UNCHANGED <<lastBuild, serviceVars, model, scenario, mode, calls, syncFinal>>

\* the model invocation of _a_generate_reason returns (or raises):
\* metric.reason = res.reason
a_generate_reason_returns(t) ==
    /\ mode = "async"
    /\ tasks[t].status = "running"
    /\ tasks[t].stack # <<>>
    /\ Top(t).pc = "reason"
    /\ LET f == Top(t)
           v == f.node
       IN  IF generate(v).error # NoError
           THEN /\ tasks' = [tasks EXCEPT ![t] = Raise(@, generate(v).error)]
                /\ stats' = NoteFallback(stats, v)
                /\ UNCHANGED metric
           ELSE /\ metric' = [AddCost(metric, v) EXCEPT
                                !.reason = {ReasonFor(The(f.prompt))}]
                /\ tasks' = [tasks EXCEPT ![t] = Return(@)]
                /\ stats' = NoteReason(NoteFallback(stats, v), v)
    /\ UNCHANGED <<nodes, lastBuild, serviceVars, model, scenario, mode, ready, calls, syncFinal>>

\* `await copied_g_eval.a_measure(...)` / `await copied_metric.a_measure(...)`
\* returns: the rest of that branch of VerdictNode._a_execute
a_measure_returns(t) ==
    /\ mode = "async"
    /\ tasks[t].status = "running"
    /\ tasks[t].stack # <<>>
    /\ Top(t).pc = "measure"
    /\ LET f == Top(t)
           h == measure(nodes, f.i)
       IN  /\ nodes' = h
           /\ metric' = AdoptResult(h, f.node, f.depth, f.i, metric)
           /\ tasks' = [tasks EXCEPT ![t] = Return(@)]
           /\ stats' = NoteAdopted(stats, f.node, metric)
    /\ UNCHANGED <<lastBuild, serviceVars, model, scenario, mode, ready, calls, syncFinal>>

-----------------------------------------------------------------------------
(* The execution specification *)

\* the nodes that invoke the model: the composite nodes, and the terminal
\* Verdict Nodes (for the reason)
Invokers(h) ==
    {x \in 1..Len(h) :
        \/ h[x].kind \in CompositeKinds
        \/ h[x].kind = "VerdictNode" /\ h[x].score # {}}

\* the nodes whose model invocation may be made to fail: none or one
Failures(h) == {{}} \cup {{n} : n \in Invokers(h)}

\* The model capabilities a DAG is run against.  A raising model is taken
\* under the native convention: an error other than TypeError passes through
\* the generic path's try/except exactly as through the native path.  Text
\* that cannot be parsed matters under the raw convention only.
Models(h) ==
    {m \in [convention : Conventions,
            verdicts : Choices(Responses(h)),
            failing : Failures(h),
            unparsable : Failures(h)] :
        /\ m.failing = {} \/ m.convention = "native"
        /\ m.unparsable = {} \/ m.convention = "raw"}

Init ==
    /\ scenario \in Scenarios
    /\ nodes = Constructed(scenario)
    /\ lastBuild = IdleBuild
    /\ model \in Models(nodes)
    /\ metric \in {MetricInit(r, model.convention) : r \in BOOLEAN}
    /\ \A v \in model.failing \cup model.unparsable :
          nodes[v].kind = "VerdictNode" => metric.include_reason
    /\ mode = "sync"
    /\ tasks = <<>>
    /\ ready = <<>>
    /\ calls = <<>>
    /\ stats = ZeroStats(nodes)
    /\ syncFinal = {}
    /\ ServicesIdle

Next ==
    \/ \E n \in NodeIds : Invoke(n)
    \/ RunConcurrently
    \/ \E t \in DOMAIN tasks : TaskNode_execute(t)
    \/ \E t \in DOMAIN tasks : BinaryJudgementNode_execute(t)
    \/ \E t \in DOMAIN tasks : NonBinaryJudgementNode_execute(t)
    \/ \E t \in DOMAIN tasks : ExecuteChildren(t)
    \/ \E t \in DOMAIN tasks : VerdictNode_execute(t)
    \/ \E t \in DOMAIN tasks : TaskNode_a_execute(t)
    \/ \E t \in DOMAIN tasks : BinaryJudgementNode_a_execute(t)
    \/ \E t \in DOMAIN tasks : NonBinaryJudgementNode_a_execute(t)
    \/ \E t \in DOMAIN tasks : a_generate_returns(t)
    \/ \E t \in DOMAIN tasks : gather_returns(t)
    \/ \E t \in DOMAIN tasks : gather_raises(t)
    \/ \E t \in DOMAIN tasks : VerdictNode_a_execute(t)
    \/ \E t \in DOMAIN tasks : a_generate_reason_returns(t)
    \/ \E t \in DOMAIN tasks : a_measure_returns(t)

Spec == Init /\ [][Next]_vars

-----------------------------------------------------------------------------
(* The construction specification: the caller builds node objects one      *)
(* constructor call at a time, with arguments of every shape.              *)

ScoreValues == {{}, {0 - 1}, {0}, {10}, {11}}

\* the children lists a caller can pass: objects that exist already
ChildLists == SeqsUpTo(1..Len(nodes), MaxChildren)

\* one constructor call; an exception it raises is not caught by the caller
Constructing(c) ==
    /\ lastBuild.error = NoError
    /\ Len(nodes) < MaxNodes
    /\ LET r == Construct(nodes, c)
       IN  /\ nodes' = r.heap
           /\ lastBuild' = [call |-> c, error |-> r.error]
    /\ UNCHANGED runVars

ConstructVerdictNode ==
    \E verdict \in VerdictValues, score \in ScoreValues,
       child \in {{}} \cup {{x} : x \in 1..Len(nodes)} :
        Constructing(Call("VerdictNode", verdict, score, child, <<>>))

ConstructTaskNode ==
    \E children \in ChildLists : Constructing(Composite("TaskNode", children))

ConstructBinaryJudgementNode ==
    \E children \in ChildLists :
        Constructing(Composite("BinaryJudgementNode", children))

ConstructNonBinaryJudgementNode ==
    \E children \in ChildLists :
        Constructing(Composite("NonBinaryJudgementNode", children))

\* no DAG assembled, nothing run
DagIdle ==
    /\ nodes = <<>>
    /\ lastBuild = IdleBuild
    /\ scenario = [prog |-> <<>>, root |-> 0]
    /\ model = [convention |-> "native", verdicts |-> <<>>, failing |-> {},
                unparsable |-> {}]
    /\ metric = MetricInit(FALSE, "native")
    /\ mode = "sync"
    /\ tasks = <<>>
    /\ ready = <<>>
    /\ calls = <<>>
    /\ stats = ZeroStats(nodes)
    /\ syncFinal = {}

InitBuild ==
    /\ DagIdle
    /\ ServicesIdle

NextBuild ==
    \/ ConstructVerdictNode
    \/ ConstructTaskNode
    \/ ConstructBinaryJudgementNode
    \/ ConstructNonBinaryJudgementNode

SpecBuild == InitBuild /\ [][NextBuild]_vars

-----------------------------------------------------------------------------
(* Vocabulary of the properties *)

\* pending_dependency_count of n after construction
K(n) == stats.built[n]

\* the run consists of one invocation of the root
RootRun == calls = <<scenario.root>>

\* the verbose-log fragments of node n
Fragments(n) ==
    {i \in 1..Len(metric._verbose_steps) : metric._verbose_steps[i].node = n}

\* the nodes n forwards arrivals to
Successors(n) ==
    {nodes[n].children[i] : i \in 1..Len(nodes[n].children)}
    \cup {c \in nodes[n].child : IsBaseNode(nodes, c)}

\* the nodes below n
RECURSIVE ReachFrom(_, _)
ReachFrom(frontier, seen) ==
    IF frontier \subseteq seen THEN seen
    ELSE ReachFrom(UNION {Successors(n) : n \in frontier}, seen \cup frontier)

Descendants(n) == ReachFrom(Successors(n), {})

\* node n has left no trace of a payload
Untouched(n) ==
    /\ stats.fired[n] = 0
    /\ stats.invocations[n] = 0
    /\ stats.forwarded[n] = 0
    /\ stats.scoreWrites[n] = 0
    /\ stats.reasonWrites[n] = 0
    /\ Fragments(n) = {}

\* this step is a call of the entry point of n
Arrives(n) == stats'.arrivals[n] = stats.arrivals[n] + 1

\* this step runs no payload of n: no model invocation, no log append, no
\* child invocation, nothing written to the host metric
NoPayload(n) ==
    /\ stats'.fired[n] = stats.fired[n]
    /\ stats'.invocations[n] = stats.invocations[n]
    /\ stats'.forwarded[n] = stats.forwarded[n]
    /\ metric' = metric

\* the owning judgment node of Verdict Node v has resolved the verdict v stores
VerdictTaken(v) ==
    /\ nodes[v]._parent # {}
    /\ nodes[The(nodes[v]._parent)]._verdict = {nodes[v].verdict}

-----------------------------------------------------------------------------
(* C1 *)

\* C1 as stated, on the runs of the root: for every node with K >= 1 pending
\* dependencies after construction, each of the first K-1 calls of its entry
\* point runs no payload and the K-th call runs the payload exactly once.
C1_AnyNodeFiresOnKthCall ==
    [][\A n \in NodeIds :
          (RootRun /\ Arrives(n) /\ K(n) >= 1) =>
             /\ stats'.arrivals[n] < K(n) => NoPayload(n)
             /\ stats'.arrivals[n] = K(n) => stats'.fired[n] = stats.fired[n] + 1
             /\ stats'.arrivals[n] <= K(n) => stats'.fired[n] <= 1]_vars

\* C1, amended: for every node with K >= 1, each of the first K-1 calls of
\* its entry point runs no payload; the K-th call runs the payload exactly
\* once if the node is a Task, Binary or Non-Binary Judgment node, and if it
\* is a Verdict Node exactly when its owning judgment node has resolved the
\* verdict the Verdict Node stores (otherwise the K-th call runs no payload).
C1_KthCallFires ==
    [][\A n \in NodeIds :
          (Arrives(n) /\ K(n) >= 1) =>
             /\ stats'.arrivals[n] < K(n) => NoPayload(n)
             /\ stats'.arrivals[n] = K(n) =>
                   IF nodes[n].kind \in CompositeKinds \/ VerdictTaken(n)
                   THEN stats'.fired[n] = stats.fired[n] + 1
                   ELSE NoPayload(n)
             /\ stats'.arrivals[n] <= K(n) => stats'.fired[n] <= 1]_vars

\* a node with two pending dependencies has received both arrivals and has
\* run its payload once
C1_Witness ==
    \E n \in NodeIds :
        /\ K(n) = 2
        /\ stats.arrivals[n] = 2
        /\ stats.fired[n] = 1
        /\ Fragments(n) # {}

-----------------------------------------------------------------------------
(* C2 *)

\* C2 as stated, for a model that always returns: a call of the entry point
\* of a node whose payload has already run (its fragment is in the verbose
\* log) is a no-op: no log
\* fragment, no cost, no model invocation, no arrival forwarded; so no node
\* runs its payload more than once.
C2_ReinvokeIsNoOp ==
    [][\A n \in NodeIds :
          (model.failing = {} /\ model.unparsable = {} /\ Arrives(n) /\ stats.fired[n] >= 1
                              /\ Fragments(n) # {}) =>
              NoPayload(n)]_vars

-----------------------------------------------------------------------------
(* C3 *)

\* the Verdict Node children of judgment node j that its resolved verdict prunes
PrunedChildren(j) ==
    {c \in Successors(j) : nodes[j]._verdict # {} /\ nodes[j]._verdict # {nodes[c].verdict}}

\* C3: in a run of the root, in both modes, once a judgment node has resolved
\* verdict v, a Verdict Node child storing another verdict never runs its
\* payload (no model invocation, no log fragment, no write to score or
\* reason) and no node below it runs.
C3_PrunedBranchNeverRuns ==
    RootRun =>
        \A j \in NodeIds :
            nodes[j].kind \in JudgementKinds =>
                \A c \in PrunedChildren(j) :
                    /\ Untouched(c)
                    /\ \A d \in Descendants(c) : Untouched(d)

\* a concurrent run of the root has ended with a pruned Verdict Node that
\* wraps a nested node
C3_Witness ==
    /\ RootRun
    /\ mode = "async"
    /\ tasks # <<>>
    /\ Quiescent
    /\ \E j \in NodeIds :
          /\ nodes[j].kind \in JudgementKinds
          /\ \E c \in PrunedChildren(j) :
                /\ stats.arrivals[c] = 1
                /\ Descendants(c) # {}

-----------------------------------------------------------------------------
(* Runs *)

\* the model capability returns on every invocation
ModelReturns == model.failing = {} /\ model.unparsable = {}

\* a run of the root has ended
RootRunEnded == RootRun /\ tasks # <<>> /\ Quiescent

-----------------------------------------------------------------------------
(* C4 *)

\* the Verdict Node children of j that wrap node x as nested child
Wrappers(j, x) == {c \in Successors(j) : nodes[c].child = {x}}

\* the pairs of Binary Judgment children of a Task Node root that both have
\* a Verdict Node wrapping the same downstream node x
Converging(x) ==
    {jj \in Successors(scenario.root) \X Successors(scenario.root) :
        /\ nodes[scenario.root].kind = "TaskNode"
        /\ jj[1] # jj[2]
        /\ nodes[jj[1]].kind = "BinaryJudgementNode"
        /\ nodes[jj[2]].kind = "BinaryJudgementNode"
        /\ Wrappers(jj[1], x) # {}
        /\ Wrappers(jj[2], x) # {}}

\* C4 as stated: in a Task Node with two Binary Judgment children whose
\* Verdict Nodes wrap the same downstream node, running the root makes the
\* shared node run its payload exactly once in total, and only after both
\* judgment nodes have resolved.
C4_SharedNodeRunsExactlyOnce ==
    (RootRun /\ ModelReturns) =>
        \A x \in NodeIds : \A jj \in Converging(x) :
            /\ stats.fired[x] >= 1 =>
                  nodes[jj[1]]._verdict # {} /\ nodes[jj[2]]._verdict # {}
            /\ (tasks # <<>> /\ Quiescent) => stats.fired[x] = 1

\* C4, amended: the shared node runs its payload at most once in total and
\* only after both judgment nodes have resolved; when the run ends it has run
\* exactly once if both judgment nodes resolved the verdict of the Verdict
\* Node that wraps it, and not at all if either resolved the other verdict.
C4_SharedNodeRunsOnceIfBothTaken ==
    (RootRun /\ ModelReturns) =>
        \A x \in NodeIds : \A jj \in Converging(x) :
            /\ stats.fired[x] <= 1
            /\ stats.fired[x] >= 1 =>
                  nodes[jj[1]]._verdict # {} /\ nodes[jj[2]]._verdict # {}
            /\ (tasks # <<>> /\ Quiescent) =>
                  (stats.fired[x] = 1 <=>
                      /\ \E c \in Wrappers(jj[1], x) : VerdictTaken(c)
                      /\ \E c \in Wrappers(jj[2], x) : VerdictTaken(c))

\* a concurrent run of the root has ended and the shared node has run once
C4_Witness ==
    /\ RootRunEnded
    /\ ModelReturns
    /\ mode = "async"
    /\ \E x \in NodeIds :
          /\ Converging(x) # {}
          /\ stats.fired[x] = 1
          /\ stats.arrivals[x] = 2
          /\ Cardinality(Fragments(x)) = 1

-----------------------------------------------------------------------------
(* C5 *)

\* what a run has left in the host metric
Final ==
    [score |-> metric.score, reason |-> metric.reason,
     evaluation_cost |-> metric.evaluation_cost, status |-> tasks[1].status]

\* C5 as stated: for a fixed DAG and fixed model responses, the final score,
\* the final reason and the total cost after running the root concurrently
\* are those of the synchronous run, under every interleaving.
C5_ModesAgree ==
    (mode = "async" /\ RootRunEnded /\ ModelReturns) => syncFinal = {Final}

-----------------------------------------------------------------------------
(* C6 *)

\* the root is a Binary Judgment node over two terminal Verdict Nodes
BinaryOverLeaves ==
    /\ nodes[scenario.root].kind = "BinaryJudgementNode"
    /\ \A c \in Successors(scenario.root) : nodes[c].score # {}

\* C6: for a Binary Judgment root over two terminal Verdict Nodes and a model
\* that resolves verdict v, a run of the root ends with score = (score of the
\* child storing v) / 10 and a verbose log of exactly two fragments: the
\* judgment node's, then the taken Verdict Node's; none for the other child.
C6_BinaryRootScore ==
    (RootRunEnded /\ ModelReturns /\ BinaryOverLeaves) =>
        \E c \in Successors(scenario.root) :
            /\ nodes[c].verdict = model.verdicts[scenario.root]
            /\ metric.score = {<<The(nodes[c].score), 10>>}
            /\ Len(metric._verbose_steps) = 2
            /\ metric._verbose_steps[1].node = scenario.root
            /\ metric._verbose_steps[2].node = c
            /\ \A d \in Successors(scenario.root) \ {c} : Fragments(d) = {}

\* the root resolved True and the run ended with score 10/10 = 1.0
C6_Witness ==
    /\ RootRunEnded
    /\ BinaryOverLeaves
    /\ model.verdicts[scenario.root] = "True"
    /\ metric.score = {<<10, 10>>}
    /\ Len(metric._verbose_steps) = 2

-----------------------------------------------------------------------------
(* C7 *)

\* C7: in concurrent mode the counter of a node is decremented once per
\* arrival (no update is lost under any interleaving); no two arrivals both
\* run the payload, and once all K arrivals of a composite node are in,
\* exactly one of them has run it.
C7_OneArrivalOwnsTheNode ==
    (mode = "async" /\ RootRun) =>
        \A n \in NodeIds :
            /\ nodes[n]._indegree = K(n) - stats.arrivals[n]
            /\ stats.fired[n] <= 1
            /\ stats.fired[n] = 1 => nodes[n]._indegree <= 0
            /\ (nodes[n].kind \in CompositeKinds /\ K(n) >= 1
                    /\ stats.arrivals[n] = K(n)) => stats.fired[n] = 1

\* two concurrently running parents have both arrived at a node and it ran once
C7_Witness ==
    /\ mode = "async"
    /\ RootRun
    /\ \E n \in NodeIds :
          /\ K(n) = 2
          /\ stats.arrivals[n] = 2
          /\ stats.fired[n] = 1
          /\ Len(tasks) >= 5

-----------------------------------------------------------------------------
(* C8 *)

\* C8 as stated: in concurrent mode a task that has ended, by returning or
\* by raising, has no child task that is still running.
C8_StructuredJoin ==
    mode = "async" =>
        \A t \in DOMAIN tasks : \A k \in DOMAIN tasks :
            (Finished(t) /\ tasks[k].waiter = t) => Finished(k)

-----------------------------------------------------------------------------
(* Construction *)

\* the last constructor call was of class op
Built(op) == lastBuild.call.op = op

\* the children the last constructor call was given
GivenChildren == lastBuild.call.children

\* the objects the last constructor call was given as children
Given == {GivenChildren[i] : i \in DOMAIN GivenChildren}

\* every given child is a Verdict Node whose verdict satisfies Is
AllVerdictNodes(Is(_)) ==
    \A c \in Given : nodes[c].kind = "VerdictNode" /\ Is(nodes[c].verdict)

\* the verdicts of the given children, one per position
GivenVerdicts == [i \in DOMAIN GivenChildren |-> nodes[GivenChildren[i]].verdict]

-----------------------------------------------------------------------------
(* C9 *)

\* C9: constructing a Binary Judgment node succeeds exactly when it is given
\* 2 children, both Verdict Nodes with boolean verdicts, one true and one
\* false; every other input fails with a construction error.
C9_BinaryConstruction ==
    Built("BinaryJudgementNode") =>
        /\ lastBuild.error = NoError <=>
              /\ Len(GivenChildren) = 2
              /\ AllVerdictNodes(IsBool)
              /\ {GivenVerdicts[i] : i \in DOMAIN GivenChildren} = BoolVerdicts
        /\ lastBuild.error # NoError =>
              lastBuild.error \in {"ValueError", "TypeError"}

\* a Binary Judgment node has been built over a true and a false Verdict Node
C9_Witness ==
    /\ Built("BinaryJudgementNode")
    /\ lastBuild.error = NoError
    /\ nodes[Len(nodes)].kind = "BinaryJudgementNode"
    /\ nodes[Len(nodes)].children = GivenChildren

-----------------------------------------------------------------------------
(* C10 *)

\* C10: constructing a Non-Binary Judgment node fails when the child list is
\* empty, when a child's verdict is not a string, or when two children carry
\* the same verdict string; when it succeeds, the verdict options of the new
\* node are exactly the set of the children's verdicts, one option per child.
C10_NonBinaryConstruction ==
    Built("NonBinaryJudgementNode") =>
        /\ (\/ GivenChildren = <<>>
            \/ ~AllVerdictNodes(IsStr)
            \/ \E i, j \in DOMAIN GivenChildren :
                  i # j /\ GivenVerdicts[i] = GivenVerdicts[j])
              => lastBuild.error # NoError
        /\ lastBuild.error = NoError =>
              /\ nodes[Len(nodes)].kind = "NonBinaryJudgementNode"
              /\ nodes[Len(nodes)]._verdict_options =
                    {GivenVerdicts[i] : i \in DOMAIN GivenChildren}
              /\ Cardinality(nodes[Len(nodes)]._verdict_options) = Len(GivenChildren)

\* a Non-Binary Judgment node has been built over two Verdict Nodes with
\* distinct string verdicts
C10_Witness ==
    /\ Built("NonBinaryJudgementNode")
    /\ lastBuild.error = NoError
    /\ Len(GivenChildren) = 2
    /\ Cardinality(nodes[Len(nodes)]._verdict_options) = 2

-----------------------------------------------------------------------------
(* C11 *)

\* exactly one of score and child is set, and a score is within 0..10
WellFormedVerdictNode(v) ==
    /\ (v.score = {}) # (v.child = {})
    /\ \A x \in v.score : 0 <= x /\ x <= 10

\* C11: constructing a Verdict Node fails when both score and child are
\* given, when neither is given and when the score is outside 0..10; it
\* succeeds otherwise (score 0 and score 10 included); so every Verdict Node
\* that exists has exactly one of score and child set and a score in 0..10.
C11_VerdictNodeConstruction ==
    /\ Built("VerdictNode") =>
          (lastBuild.error = NoError <=>
              WellFormedVerdictNode(lastBuild.call))
    /\ \A n \in NodeIds :
          nodes[n].kind = "VerdictNode" => WellFormedVerdictNode(nodes[n])

\* a Verdict Node with score 10 has been built, after one with score 0
C11_Witness ==
    /\ Built("VerdictNode")
    /\ lastBuild.error = NoError
    /\ lastBuild.call.score = {10}
    /\ nodes[Len(nodes)].score = {10}
    /\ \E n \in NodeIds : nodes[n].score = {0}

-----------------------------------------------------------------------------
(* C12 *)

\* C12: a Task, Binary Judgment or Non-Binary Judgment construction that
\* fails validation leaves every existing node as it was: no count is
\* incremented, no parent link is registered, no node is added.
C12_FailedConstructionTouchesNothing ==
    [][(lastBuild'.call.op \in CompositeKinds /\ lastBuild'.error # NoError)
           => nodes' = nodes]_vars

\* a judgment construction has failed on its second child, after a first
\* child that passed validation
C12_Witness ==
    /\ lastBuild.call.op \in JudgementKinds
    /\ lastBuild.error # NoError
    /\ Len(GivenChildren) = 2
    /\ nodes[GivenChildren[1]].kind = "VerdictNode"
    /\ \/ Built("BinaryJudgementNode") /\ IsBool(GivenVerdicts[1])
       \/ Built("NonBinaryJudgementNode") /\ IsStr(GivenVerdicts[1])
    /\ nodes[GivenChildren[1]]._indegree = 0
    /\ nodes[GivenChildren[1]]._parent = {}

-----------------------------------------------------------------------------
(* C13 *)

RECURSIVE SumOver(_, _)
SumOver(f, S) ==
    IF S = {} THEN 0
    ELSE LET x == CHOOSE y \in S : TRUE IN f[x] + SumOver(f, S \ {x})

\* the (parent, child) edges into n: one per occurrence of n in the children
\* list of a composite node
EdgesInto(n) ==
    SumOver([p \in NodeIds |-> Count(nodes[p].children, n)],
            {p \in NodeIds : nodes[p].kind \in CompositeKinds})

\* the attachments of a Verdict Node that wraps n to a judgment node
NestedInto(n) ==
    SumOver([j \in NodeIds |->
                Cardinality({i \in DOMAIN nodes[j].children :
                                nodes[nodes[j].children[i]].child = {n}})],
            {j \in NodeIds : nodes[j].kind \in JudgementKinds})

\* C13: after any sequence of constructions and before any execution, the
\* pending_dependency_count of every node is the number of edges into it plus
\* the number of attachments, to a Binary or Non-Binary Judgment node, of a
\* Verdict Node that wraps it; a Task Node adds nothing for nested nodes.
C13_CountIsEdgesPlusNested ==
    \A n \in NodeIds : nodes[n]._indegree = EdgesInto(n) + NestedInto(n)

\* a node has one count from an edge and one from a wrapping Verdict Node
C13_Witness ==
    \E n \in NodeIds :
        /\ EdgesInto(n) >= 1
        /\ NestedInto(n) >= 1
        /\ nodes[n]._indegree = 2

-----------------------------------------------------------------------------
(* Model invocations *)

\* the model invocation of the payload of n has been made and has not ended
InFlight(n) ==
    \E t \in DOMAIN tasks :
        /\ tasks[t].stack # <<>>
        /\ Top(t).node = n
        /\ Top(t).pc \in {"gen", "reason"}

\* the model invocation block of the payload of n has ended
Invoked(n) == stats.invocations[n] >= 1 /\ ~InFlight(n)

\* the result field of composite node n is set
HasResult(n) ==
    IF nodes[n].kind = "TaskNode" THEN nodes[n]._output # {}
    ELSE nodes[n]._verdict # {}

\* composite node n has set its result and appended its one fragment, and
\* (in a run that has ended without an error) has invoked each child once
Propagated(n) ==
    /\ HasResult(n)
    /\ Cardinality(Fragments(n)) = 1
    /\ stats.forwarded[n] <= Len(nodes[n].children)
    /\ (RootRunEnded /\ tasks[1].status = "done") =>
          stats.forwarded[n] = Len(nodes[n].children)

\* the error has reached the caller of the root
Surfaced(exc) ==
    RootRunEnded => tasks[1].status = "error" /\ tasks[1].exc = exc

-----------------------------------------------------------------------------
(* C14 *)

\* C14 as stated: with a generic model, a node whose schema-aware invocation
\* fails with a type mismatch makes exactly one raw invocation; it then sets
\* its result, appends its log and propagates as on the schema path; if the
\* parse of the raw text fails, the error surfaces and the node appends no log
\* and invokes no child.
C14_OneFallbackOrNothing ==
    (RootRun /\ ~metric.using_native_model) =>
        \A n \in NodeIds : Invoked(n) =>
            /\ stats.fallbacks[n] = (IF model.convention = "raw" THEN 1 ELSE 0)
            /\ stats.invocations[n] = stats.fallbacks[n] + 1
            /\ IF n \in model.unparsable
               THEN /\ Surfaced("ValueError")
                    /\ Fragments(n) = {}
                    /\ stats.forwarded[n] = 0
               ELSE nodes[n].kind \in CompositeKinds => Propagated(n)

\* C14, amended: as stated for Task and judgment nodes; a terminal Verdict
\* Node that generates the reason makes the same single fallback, and if the
\* parse fails the error surfaces and no reason is written, but the leaf's
\* fragment and the score were written before the invocation and stay.
C14_OneFallback ==
    (RootRun /\ ~metric.using_native_model) =>
        \A n \in NodeIds : Invoked(n) =>
            /\ stats.fallbacks[n] = (IF model.convention = "raw" THEN 1 ELSE 0)
            /\ stats.invocations[n] = stats.fallbacks[n] + 1
            /\ IF nodes[n].kind \in CompositeKinds
               THEN IF n \in model.unparsable
                    THEN /\ Surfaced("ValueError")
                         /\ Fragments(n) = {}
                         /\ stats.forwarded[n] = 0
                         /\ ~HasResult(n)
                    ELSE Propagated(n)
               ELSE IF n \in model.unparsable
                    THEN /\ Surfaced("ValueError")
                         /\ stats.reasonWrites[n] = 0
                         /\ Cardinality(Fragments(n)) = 1
                         /\ stats.scoreWrites[n] = 1
                    ELSE stats.reasonWrites[n] = 1

\* a concurrent run has ended in which one node made the fallback and went
\* on, and another node's fallback text could not be parsed
C14_Witness ==
    /\ RootRunEnded
    /\ mode = "async"
    /\ model.convention = "raw"
    /\ tasks[1].status = "error"
    /\ \E n \in model.unparsable, m \in NodeIds :
          /\ nodes[n].kind \in CompositeKinds
          /\ stats.fallbacks[n] = 1
          /\ m # n
          /\ stats.fallbacks[m] = 1
          /\ Fragments(m) # {}

-----------------------------------------------------------------------------
(* C15 *)

\* the nodes through which a parent's loop reaches n: n itself and the
\* Verdict Nodes that wrap it
EntersThrough(n) == {n} \cup {v \in NodeIds : nodes[v].child = {n}}

\* the children that come after an entry to n in some parent's list
LaterSiblings(n) ==
    {c \in NodeIds : \E p \in NodeIds : \E i, j \in DOMAIN nodes[p].children :
        /\ i < j
        /\ nodes[p].children[i] \in EntersThrough(n)
        /\ nodes[p].children[j] = c}

\* C15 as stated: in synchronous mode, when the model raises an error other
\* than the type mismatch in the payload of node n, the run of the root ends
\* with that error; n has invoked the model exactly once, has appended no
\* fragment and has forwarded no arrival, and no later sibling has executed.
C15_ModelErrorLeavesNoTrace ==
    (mode = "sync" /\ RootRun) =>
        \A n \in model.failing : stats.invocations[n] >= 1 =>
            /\ tasks[1].status = "error"
            /\ tasks[1].exc = "ModelError"
            /\ stats.invocations[n] = 1
            /\ stats.forwarded[n] = 0
            /\ Fragments(n) = {}
            /\ \A c \in LaterSiblings(n) : Untouched(c)

\* C15, amended: as stated when n is a Task or judgment node (which also
\* sets no result); when n is a terminal Verdict Node that raises while
\* generating the reason, the run ends with the error after exactly one
\* invocation and no later sibling has executed, but the fragment of n and
\* the score were written before the invocation and no reason is written.
C15_ModelErrorPropagates ==
    (mode = "sync" /\ RootRun) =>
        \A n \in model.failing : stats.invocations[n] >= 1 =>
            /\ tasks[1].status = "error"
            /\ tasks[1].exc = "ModelError"
            /\ stats.invocations[n] = 1
            /\ stats.forwarded[n] = 0
            /\ IF nodes[n].kind \in CompositeKinds
               THEN Fragments(n) = {} /\ ~HasResult(n)
               ELSE /\ Cardinality(Fragments(n)) = 1
                    /\ stats.scoreWrites[n] = 1
                    /\ stats.reasonWrites[n] = 0
            /\ \A c \in LaterSiblings(n) \ {n} :
                  stats.fired[c] = 0 /\ Fragments(c) = {}

\* the first Binary Judgment child of a Task Node root has raised, after the
\* root appended its fragment, and the second child has not been called
C15_Witness ==
    /\ mode = "sync"
    /\ RootRun
    /\ tasks # <<>>
    /\ tasks[1].status = "error"
    /\ Fragments(scenario.root) # {}
    /\ \E n \in model.failing :
          /\ stats.invocations[n] = 1
          /\ \E c \in LaterSiblings(n) :
                nodes[c].kind \in CompositeKinds /\ stats.arrivals[c] = 0

-----------------------------------------------------------------------------
(* C16 *)

\* this step runs the payload of n
Fires(n) == stats'.fired[n] = stats.fired[n] + 1

\* this step writes the reason generated for n
WritesReason(n) == stats'.reasonWrites[n] = stats.reasonWrites[n] + 1

\* the prompts made of the score of leaf v and of the log up to and
\* including a fragment of v
OwnPrompts(v, log) ==
    {[steps |-> SubSeq(log, 1, k), score |-> {<<The(nodes[v].score), 10>>}] :
        k \in {i \in DOMAIN log : log[i].node = v}}

\* C16: the step in which a terminal Verdict Node is taken appends its
\* fragment to the verbose log and sets the score to score / 10; without
\* include_reason it leaves the reason alone and invokes no model; with
\* include_reason the reason it writes is the one generated from the log up
\* to and including its own fragment and from the score it has just set.
C16_LeafWritesScoreThenReason ==
    [][\A v \in NodeIds : nodes[v].score # {} =>
          /\ Fires(v) =>
                /\ metric'._verbose_steps # <<>>
                /\ Front(metric'._verbose_steps) = metric._verbose_steps
                /\ Last(metric'._verbose_steps).node = v
                /\ Last(metric'._verbose_steps).verdict = {nodes[v].verdict}
                /\ metric'.score = {<<The(nodes[v].score), 10>>}
                /\ metric.include_reason =>
                      stats'.invocations[v] >= stats.invocations[v] + 1
                /\ ~metric.include_reason =>
                      /\ metric'.reason = metric.reason
                      /\ metric'.evaluation_cost = metric.evaluation_cost
                      /\ stats'.invocations = stats.invocations
          /\ WritesReason(v) =>
                /\ metric.include_reason
                /\ \E p \in OwnPrompts(v, metric'._verbose_steps) :
                      metric'.reason = {ReasonFor(p)}
          /\ (~metric.include_reason) => ~WritesReason(v)]_vars

\* in concurrent mode the reason of a taken leaf has been written after
\* another node appended to the log
C16_Witness ==
    /\ mode = "async"
    /\ RootRun
    /\ \E v \in NodeIds :
          /\ nodes[v].score # {}
          /\ stats.reasonWrites[v] = 1
          /\ stats.lastReason = {v}
          /\ metric.reason # {}
          /\ metric._verbose_steps[Len(metric._verbose_steps)].node # v

-----------------------------------------------------------------------------
(* C17 *)

\* the children of judgment node j that have passed their gate
Passed(j) == {c \in Successors(j) : stats.fired[c] >= 1}

\* the children of judgment node j that store the verdict j has resolved
Matching(j) == {c \in Successors(j) : nodes[j]._verdict = {nodes[c].verdict}}

\* C17: once the payload of a Binary or Non-Binary Judgment node has resolved
\* a verdict of its option set, only the child that stores that verdict can
\* pass its gate; when the run has ended that one child has executed, once,
\* and every other child has been called and was pruned.
C17_ExactlyOneBranch ==
    (RootRun /\ ModelReturns) =>
        \A j \in NodeIds : (nodes[j].kind \in JudgementKinds /\ HasResult(j)) =>
            /\ Cardinality(Matching(j)) = 1
            /\ Passed(j) \subseteq Matching(j)
            /\ (tasks # <<>> /\ Quiescent) =>
                  /\ Passed(j) = Matching(j)
                  /\ \A c \in Matching(j) : stats.fired[c] = 1
                  /\ \A d \in Successors(j) \ Matching(j) :
                        stats.arrivals[d] = 1 /\ Untouched(d)

\* a concurrent run has ended in which a Non-Binary Judgment node resolved an
\* option and only the child storing it executed
C17_Witness ==
    /\ RootRunEnded
    /\ mode = "async"
    /\ \E j \in NodeIds :
          /\ nodes[j].kind = "NonBinaryJudgementNode"
          /\ HasResult(j)
          /\ Cardinality(Successors(j)) = 2
          /\ Cardinality(Passed(j)) = 1
          /\ \E d \in Successors(j) \ Passed(j) : stats.arrivals[d] = 1

-----------------------------------------------------------------------------
(* C18 *)

\* C18 as stated: in a run started by invoking the root once, the
\* pending_dependency_count of a node is exactly zero in the step that runs
\* its payload, and the count of no node, the root included, is ever negative.
C18_PayloadAtZeroNeverNegative ==
    [][(calls' = <<scenario.root>>) =>
          \A n \in NodeIds :
              /\ Fires(n) => nodes'[n]._indegree = 0
              /\ nodes'[n]._indegree >= 0]_vars

-----------------------------------------------------------------------------
(* C19 *)

\* C19: a call of the entry point of n that leaves the count of n above
\* zero changes the count and the resolved depth of n and nothing else: not
\* the host metric, not the result of n, not any other node; it invokes no
\* model and no child, and returns.
C19_WaitingArrivalChangesNothingElse ==
    [][\A n \in NodeIds : (Arrives(n) /\ nodes'[n]._indegree > 0) =>
          /\ metric' = metric
          /\ \A m \in NodeIds \ {n} : nodes'[m] = nodes[m]
          /\ nodes'[n] = [nodes[n] EXCEPT !._indegree = nodes'[n]._indegree,
                                          !._depth = nodes'[n]._depth]
          /\ nodes'[n]._indegree = nodes[n]._indegree - 1
          /\ nodes'[n]._depth >= nodes[n]._depth
          /\ [stats' EXCEPT !.arrivals = stats.arrivals,
                            !.incoming = stats.incoming] = stats
          /\ \A t \in DOMAIN tasks :
                (CanEnter(t) /\ Top(t).node = n /\ tasks'[t] # tasks[t]) =>
                    Len(tasks'[t].stack) < Len(tasks[t].stack)
          /\ Len(tasks') = Len(tasks)]_vars

\* a node with two incoming arrivals has received the first and waits, with
\* the depth of that arrival resolved
C19_Witness ==
    /\ RootRun
    /\ \E n \in NodeIds :
          /\ K(n) = 2
          /\ stats.arrivals[n] = 1
          /\ nodes[n]._indegree = 1
          /\ nodes[n]._depth >= 1
          /\ Untouched(n)
    /\ metric._verbose_steps # <<>>

-----------------------------------------------------------------------------
(* C20 *)

\* the nodes reachable from the frontier without passing through node x
RECURSIVE ReachAvoiding(_, _, _)
ReachAvoiding(frontier, seen, x) ==
    IF frontier \ {x} \subseteq seen THEN seen
    ELSE ReachAvoiding(UNION {Successors(n) : n \in frontier \ {x}},
                       seen \cup (frontier \ {x}), x)

\* the descendants of c that the root reaches only through c
OnlyThrough(c) == Descendants(c) \ ReachAvoiding({scenario.root}, {}, c)

\* C20: a pruned Verdict Node forwards no arrival: its nested child stays
\* pending and unexecuted, and every descendant that is reachable only
\* through it keeps the count that construction left, above zero, and never
\* executes.
C20_PrunedForwardsNothing ==
    RootRun =>
        \A j \in NodeIds : nodes[j].kind \in JudgementKinds =>
            \A c \in PrunedChildren(j) : stats.arrivals[c] >= 1 =>
                /\ stats.forwarded[c] = 0
                /\ \A x \in nodes[c].child \cap NodeIds :
                      nodes[x]._indegree >= 1 /\ Untouched(x)
                /\ \A d \in OnlyThrough(c) :
                      /\ nodes[d]._indegree = K(d)
                      /\ K(d) >= 1
                      /\ stats.arrivals[d] = 0
                      /\ Untouched(d)

\* a run has ended in which a pruned Verdict Node had three nodes below it
\* that are reachable only through it
C20_Witness ==
    /\ RootRunEnded
    /\ \E j \in NodeIds : \E c \in PrunedChildren(j) :
          /\ stats.arrivals[c] = 1
          /\ Cardinality(OnlyThrough(c)) = 3
          /\ \A d \in OnlyThrough(c) : nodes[d]._indegree = 1

-----------------------------------------------------------------------------
(* Termination *)

\* one step of a run in progress: the interpreter goes on with the running
\* call, the event loop starts the next ready task, resumes a task whose
\* model invocation has returned, or wakes a task whose gather is complete
Step ==
    \E t \in DOMAIN tasks :
        \/ TaskNode_execute(t)
        \/ BinaryJudgementNode_execute(t)
        \/ NonBinaryJudgementNode_execute(t)
        \/ ExecuteChildren(t)
        \/ VerdictNode_execute(t)
        \/ TaskNode_a_execute(t)
        \/ BinaryJudgementNode_a_execute(t)
        \/ NonBinaryJudgementNode_a_execute(t)
        \/ a_generate_returns(t)
        \/ gather_returns(t)
        \/ gather_raises(t)
        \/ VerdictNode_a_execute(t)
        \/ a_generate_reason_returns(t)
        \/ a_measure_returns(t)

\* the caller executes the root, once in each mode
ExecuteRoot == calls = <<>> /\ Invoke(scenario.root)

NextLive ==
    \/ ExecuteRoot
    \/ RunConcurrently
    \/ Step

\* The runs of the root, with a scheduler that does not stop while a step
\* can be taken and a model whose invocations return.  The caller is under
\* no obligation to make a call.
SpecLive == Init /\ [][NextLive]_vars /\ WF_vars(Step)

\* a node that has been reached and is left waiting for an arrival
LeftPending(n) == stats.arrivals[n] > 0 /\ nodes[n]._indegree > 0

\* C21: with a model that always returns, a run of the root that has been
\* started ends, in either mode: every task, every join included, finishes,
\* whether or not a node is left with a positive dependency count.
C21_RootRunTerminates == (RootRun /\ ModelReturns) ~> RootRunEnded

\* a concurrent run of the root has ended although a node that was reached
\* through a taken branch still waits for its pruned one
C21_Witness ==
    /\ RootRunEnded
    /\ ModelReturns
    /\ mode = "async"
    /\ Len(tasks) > 1
    /\ \E n \in NodeIds : LeftPending(n)

-----------------------------------------------------------------------------
(* C22 *)

\* the greatest of a set of depths, none of which is below 0
Deepest(S) == CHOOSE d \in S \cup {0} : \A e \in S : e <= d

\* this step appends a fragment of node n
Logs(n) ==
    /\ Len(metric'._verbose_steps) = Len(metric._verbose_steps) + 1
    /\ Last(metric'._verbose_steps).node = n

\* the depths this step invokes a child of composite node n with: the frame
\* the loop of _execute pushes, the tasks gather creates
InvokedWith(n) ==
    {Last(tasks'[t].stack).depth : t \in
        {t \in DOMAIN tasks \cap DOMAIN tasks' :
            /\ tasks[t].stack # <<>>
            /\ Top(t).node = n
            /\ Len(tasks'[t].stack) = Len(tasks[t].stack) + 1}}
    \cup
    {tasks'[k].stack[1].depth : k \in
        {k \in DOMAIN tasks' \ DOMAIN tasks :
            /\ tasks'[k].waiter \in DOMAIN tasks
            /\ tasks[tasks'[k].waiter].stack # <<>>
            /\ Top(tasks'[k].waiter).node = n}}

\* C22: _depth of a composite node never decreases; in the step that runs
\* its payload it is the greatest incoming depth of all the arrivals the node
\* has had, the waiting ones included; the fragment the node appends reports
\* that depth, and each child is invoked with that depth + 1.
C22_ResolvedDepth ==
    [][mode' = mode =>
        \A n \in NodeIds : nodes[n].kind \in CompositeKinds =>
            /\ nodes'[n]._depth >= nodes[n]._depth
            /\ Fires(n) => nodes'[n]._depth = Deepest(stats'.incoming[n])
            /\ Logs(n) =>
                  /\ Last(metric'._verbose_steps).level = nodes'[n]._depth
                  /\ nodes'[n]._depth = Deepest(stats'.incoming[n])
            /\ InvokedWith(n) \subseteq {Deepest(stats'.incoming[n]) + 1}
            /\ InvokedWith(n) \subseteq {nodes'[n]._depth + 1}]_vars

\* a shared node has run its payload at a depth greater than the one its
\* first, waiting arrival came with, and has passed that depth + 1 on
C22_Witness ==
    \E n \in NodeIds :
        /\ nodes[n].kind \in CompositeKinds
        /\ Cardinality(stats.incoming[n]) >= 2
        /\ stats.fired[n] >= 1
        /\ Fragments(n) # {}
        /\ \A i \in Fragments(n) :
              metric._verbose_steps[i].level = Deepest(stats.incoming[n])
        /\ stats.forwarded[n] >= 1

-----------------------------------------------------------------------------
(* C23 *)

\* Verdict Nodes whose child is a node of the graph
Wrapping ==
    {v \in NodeIds :
        /\ nodes[v].kind = "VerdictNode"
        /\ nodes[v].child # {}
        /\ IsBaseNode(nodes, The(nodes[v].child))}

\* C23: the step in which a Verdict Node with a node child is taken calls
\* the entry point of that child with the depth the Verdict Node was called
\* with; in a run of the root that is the resolved depth of the owning
\* judgment node + 1.
C23_WrapperAddsNoLevel ==
    [][\A v \in Wrapping : Fires(v) =>
        \E t \in DOMAIN tasks :
            /\ tasks[t].stack # <<>>
            /\ Top(t).node = v
            /\ Len(tasks'[t].stack) = Len(tasks[t].stack) + 1
            /\ Last(tasks'[t].stack).node = The(nodes[v].child)
            /\ Last(tasks'[t].stack).pc = "enter"
            /\ Last(tasks'[t].stack).depth = Top(t).depth
            /\ (RootRun /\ nodes[v]._parent # {}) =>
                  Last(tasks'[t].stack).depth =
                      nodes[The(nodes[v]._parent)]._depth + 1]_vars

\* in a run of the root a nested node has executed after an arrival, through
\* its Verdict Node, one level below the owning judgment node, and has
\* reported that level
C23_Witness ==
    /\ RootRun
    /\ \E v \in Wrapping :
          LET c == The(nodes[v].child)
              j == The(nodes[v]._parent)
          IN  /\ stats.fired[v] >= 1
              /\ nodes[j]._depth >= 1
              /\ stats.incoming[v] = {nodes[j]._depth + 1}
              /\ stats.incoming[c] = {nodes[j]._depth + 1}
              /\ \E i \in Fragments(c) :
                    metric._verbose_steps[i].level = nodes[j]._depth + 1

-----------------------------------------------------------------------------
(* C24 *)

\* the positions of the call stack of the synchronous run at which a
\* composite node is in its loop over the children
Looping ==
    IF tasks = <<>> THEN {}
    ELSE {k \in DOMAIN tasks[1].stack : tasks[1].stack[k].pc = "iter"}

\* every fragment of node a comes before every fragment of node b
LogsBefore(a, b) ==
    \A i \in Fragments(a) : \A j \in Fragments(b) : i < j

\* C24: in a synchronous run of the root, while a composite node n is in
\* its loop it has appended its own fragment, it has called exactly the
\* children before the one in progress, in list order, and the one in
\* progress is the callee right above it; a step taken while the call of
\* child i is in progress, whatever it writes, calls no later child of n, and
\* the call of child i + 1 is made by n itself once the call of child i has
\* returned.  In the log the fragment of n comes before those of its
\* children, and those of an earlier child before those of a later one (for
\* children that have no other parent).
C24_ChildrenInListOrder ==
    [][(mode = "sync" /\ mode' = "sync" /\ RootRun) =>
        \A k \in Looping :
            LET s == tasks[1].stack
                n == s[k].node
                i == s[k].i - 1
            IN  /\ Fragments(n) # {}
                /\ stats.forwarded[n] = i
                /\ k < Len(s) =>
                      /\ i >= 1
                      /\ s[k + 1].node = nodes[n].children[i]
                      /\ stats'.forwarded[n] = i
                /\ stats'.forwarded[n] # i =>
                      /\ k = Len(s)
                      /\ stats'.forwarded[n] = i + 1
                      /\ Len(tasks'[1].stack) = k + 1
                      /\ Last(tasks'[1].stack).node = nodes[n].children[i + 1]
                      /\ metric' = metric
                /\ \A a, b \in 1..Len(nodes[n].children) :
                      LET ca == nodes[n].children[a]
                          cb == nodes[n].children[b]
                      IN  /\ LogsBefore(n, ca)
                          /\ (a < b /\ K(ca) = 1 /\ K(cb) = 1) => LogsBefore(ca, cb)]_vars

\* a synchronous run of the root has ended in which a node with two
\* children has run both subtrees, the first wholly before the second: the
\* log, and the score that is left, which is the second subtree's
C24_Witness ==
    /\ mode = "sync"
    /\ RootRunEnded
    /\ \E n \in NodeIds :
          /\ Len(nodes[n].children) = 2
          /\ LET c1 == nodes[n].children[1]
                 c2 == nodes[n].children[2]
             IN  /\ Fragments(n) # {} /\ Fragments(c1) # {} /\ Fragments(c2) # {}
                 /\ LogsBefore(n, c1)
                 /\ LogsBefore(c1, c2)
                 /\ \E x \in Descendants(c1) \ Descendants(c2) :
                       /\ stats.scoreWrites[x] = 1
                       /\ LogsBefore(x, c2)
                 /\ \E y \in Descendants(c2) \ Descendants(c1) :
                       /\ stats.scoreWrites[y] = 1
                       /\ stats.lastScore = {y}

-----------------------------------------------------------------------------
(* C25 *)

\* log is log2 or a beginning of it
IsPrefix(log, log2) ==
    /\ Len(log) <= Len(log2)
    /\ SubSeq(log2, 1, Len(log)) = log

\* the composite nodes that have forwarded an arrival to node x, by calling
\* it or by calling a Verdict Node that has delegated to it
Forwarders(x) ==
    {p \in NodeIds :
        /\ nodes[p].kind \in CompositeKinds
        /\ \E i \in 1..Len(nodes[p].children) :
              LET c == nodes[p].children[i]
              IN  /\ i <= stats.forwarded[p]
                  /\ \/ c = x
                     \/ nodes[c].child = {x} /\ stats.forwarded[c] >= 1}

\* each fragment in the log follows the fragments of the nodes that
\* forwarded an arrival to its node
OrderedLog ==
    \A x \in NodeIds : Fragments(x) # {} =>
        \A p \in Forwarders(x) : Fragments(p) # {} /\ LogsBefore(p, x)

\* C25: in both modes a step leaves the fragments already in the verbose log
\* in place and at most appends to them, and in a run of the root the
\* fragment of a node comes after the fragment of every node that has
\* forwarded an arrival to it.
C25_LogFollowsAncestors ==
    [][/\ mode' = mode => IsPrefix(metric._verbose_steps, metric'._verbose_steps)
       /\ RootRun' => OrderedLog']_vars

\* a concurrent run of the root in which the subtree of a later child has
\* appended its fragment before the subtree of an earlier child, both after
\* the fragment of their parent
C25_Witness ==
    /\ mode = "async"
    /\ RootRun
    /\ \E n \in NodeIds : \E a, b \in 1..Len(nodes[n].children) :
          LET ca == nodes[n].children[a]
              cb == nodes[n].children[b]
          IN  /\ a < b
              /\ Fragments(n) # {} /\ Fragments(ca) # {} /\ Fragments(cb) # {}
              /\ {n} \subseteq Forwarders(ca) \cap Forwarders(cb)
              /\ LogsBefore(n, cb)
              /\ LogsBefore(cb, ca)

-----------------------------------------------------------------------------
(* C26 *)

\* the model invocations of node n that have not returned yet
Suspended(n) ==
    {t \in DOMAIN tasks :
        /\ tasks[t].stack # <<>>
        /\ Top(t).node = n
        /\ Top(t).pc \in {"gen", "reason"}}

\* the number of model invocations of node n that have returned a cost: the
\* native model returns (result, cost), unless it raises; a generic model
\* returns the result alone
ReturnedCosts(n) ==
    IF model.convention # "native" \/ n \in model.failing THEN 0
    ELSE stats.invocations[n] - Cardinality(Suspended(n))

\* C26: the evaluation cost of the host metric is its initial value, 0, plus
\* the cost of every model invocation that has returned one, each counted
\* once; a node that has run no payload (it has only waited, or was pruned)
\* has made no invocation and has added nothing.
C26_CostIsSumOfReturnedCosts ==
    /\ metric.evaluation_cost =
          SumOver([n \in NodeIds |-> Cost(n) * ReturnedCosts(n)], NodeIds)
    /\ \A n \in NodeIds : stats.fired[n] = 0 => ReturnedCosts(n) = 0
    /\ \A n \in NodeIds : ReturnedCosts(n) <= stats.fired[n]

\* a concurrent run of the root against a native model has ended: a Task or
\* judgment node and the reason generation of a leaf have each added their
\* cost once, a node that waited and a pruned Verdict Node nothing
C26_Witness ==
    /\ mode = "async"
    /\ RootRunEnded
    /\ model.convention = "native"
    /\ \E n \in NodeIds : nodes[n].kind \in JudgementKinds /\ ReturnedCosts(n) = 1
    /\ \E v \in NodeIds : stats.reasonWrites[v] = 1 /\ ReturnedCosts(v) = 1
    /\ \E v \in NodeIds : stats.arrivals[v] >= 1 /\ stats.fired[v] = 0
                             /\ nodes[v]._indegree = 0
    /\ \E n \in NodeIds : LeftPending(n)
    /\ metric.evaluation_cost =
          SumOver([n \in NodeIds |-> IF stats.invocations[n] = 1 THEN Cost(n) ELSE 0],
                  NodeIds)
    /\ metric.evaluation_cost > 0

-----------------------------------------------------------------------------
(* C27 *)

\* the Verdict Nodes that hold a metric, and the metric objects they hold
Holders == {v \in NodeIds : nodes[v].kind = "VerdictNode" /\ HoldsMetric(nodes, v)}
Held == UNION {nodes[v].child : v \in Holders}

\* the metric objects this step calls measure / a_measure on
MeasuredNow ==
    {e \in 1..Len(nodes') :
        /\ nodes'[e].kind \in MetricKinds
        /\ nodes'[e].measured > (IF e <= Len(nodes) THEN nodes[e].measured ELSE 0)}

\* this step completes the branch of Verdict Node v that runs a metric
Adopts(v) == v \in Holders /\ stats'.scoreWrites[v] = stats.scoreWrites[v] + 1

\* in the step in which Verdict Node v completes, the one object measured is
\* a copy of the metric v holds, no object stored in a node, measured once;
\* one fragment of v is appended and the score is the copy's score
RunsACopy(v, e) ==
    LET c == The(nodes[v].child)
    IN  /\ MeasuredNow = {e}
        /\ e \notin Held
        /\ nodes'[e].measured = 1
        /\ nodes'[e].kind = nodes[c].kind
        /\ nodes'[e].name = nodes[c].name
        /\ nodes'[e].verbose_mode = FALSE
        /\ Front(metric'._verbose_steps) = metric._verbose_steps
        /\ Last(metric'._verbose_steps).node = v
        /\ Last(metric'._verbose_steps).output = {nodes[c].name}
        /\ metric'.score = nodes'[e].score
        /\ metric'.score # {}
        /\ metric'.evaluation_cost = metric.evaluation_cost

\* no step changes a metric object that is stored in a node
StoredUntouched ==
    \A c \in Held : nodes'[c] = nodes[c] /\ nodes[c].measured = 0

\* C27 as stated: a taken Verdict Node that holds a metric runs an isolated
\* copy of it that is bound to the model of the host metric, never measures
\* or mutates the stored object, and on completion appends one fragment and
\* sets the score and the reason of the host metric to those of the copy.
C27_CopyBoundToHostModel ==
    [][/\ mode' = mode => StoredUntouched
       /\ \A v \in NodeIds : Adopts(v) =>
             \E e \in MeasuredNow :
                 /\ RunsACopy(v, e)
                 /\ nodes'[e].model = metric.model
                 /\ metric'.reason = nodes'[e].reason]_vars

\* C27, amended: the copy is a new GEval bound to the model of the host
\* metric when the stored metric is a GEval, and otherwise the copy that
\* copy_metrics makes, which is bound as the stored metric is; the stored
\* object is never measured or mutated; on completion one fragment is
\* appended and the score of the host metric is the copy's score; the reason
\* of the host metric is the copy's reason if include_reason is set, and is
\* left as it was if not.
C27_RunsAnIsolatedCopy ==
    [][/\ mode' = mode => StoredUntouched
       /\ \A v \in NodeIds : Adopts(v) =>
             \E e \in MeasuredNow :
                 /\ RunsACopy(v, e)
                 /\ nodes'[e].model =
                       IF nodes[The(nodes[v].child)].kind = "GEval" THEN metric.model
                       ELSE nodes[The(nodes[v].child)].model
                 /\ metric'.reason =
                       IF metric.include_reason THEN nodes'[e].reason
                       ELSE metric.reason]_vars

\* a concurrent run of the root has ended in which the Verdict Node that
\* holds a metric other than a GEval was taken: the host metric has the
\* score and the reason of a copy that is bound to the stored metric's own
\* model, and the stored metric has not been measured
C27_Witness ==
    /\ mode = "async"
    /\ RootRunEnded
    /\ \E v \in Holders : \E e \in 1..Len(nodes) :
          LET c == The(nodes[v].child)
          IN  /\ nodes[c].kind = "BaseMetric"
              /\ stats.scoreWrites[v] = 1
              /\ e \notin Held
              /\ nodes[e].kind = "BaseMetric"
              /\ nodes[e].measured = 1
              /\ nodes[e].model = OwnModel
              /\ nodes[c].measured = 0
              /\ nodes[c].score = {}
              /\ metric.include_reason
              /\ metric.score = nodes[e].score
              /\ metric.reason = nodes[e].reason
              /\ Cardinality(Fragments(v)) = 1

-----------------------------------------------------------------------------
(* C28 *)

\* the judgment nodes that have Verdict Node v in their children list
Owners(v) ==
    {j \in NodeIds : \E i \in DOMAIN nodes[j].children : nodes[j].children[i] = v}

\* C28 as stated: after any sequence of successful constructions every
\* Verdict Node is in the children list of at most one judgment node, once,
\* its dependency count is at most 1, and the judgment node it reads the
\* verdict of (_parent) is the one that calls it.
C28_VerdictNodeHasOneParent ==
    \A v \in NodeIds : nodes[v].kind = "VerdictNode" =>
        /\ Cardinality(Owners(v)) <= 1
        /\ EdgesInto(v) <= 1
        /\ nodes[v]._indegree <= 1
        /\ \A j \in Owners(v) : nodes[v]._parent = {j}

-----------------------------------------------------------------------------
(* C29 *)

\* the kinds of the children of node n
ChildKinds(n) == {nodes[nodes[n].children[i]].kind : i \in DOMAIN nodes[n].children}

\* the kinds of the objects the last constructor call was given as children
GivenKinds == {nodes[c].kind : c \in Given}

\* C29: in every graph the constructors have built no Task Node has a
\* Verdict Node among its children and every child of a Binary or Non-Binary
\* Judgment node is a Verdict Node; the construction of a Task Node that is
\* given a Verdict Node fails, and so does the construction of a judgment
\* node that is given a child of another kind.
C29_ChildKindRule ==
    /\ \A n \in NodeIds :
          /\ nodes[n].kind = "TaskNode" => "VerdictNode" \notin ChildKinds(n)
          /\ nodes[n].kind \in JudgementKinds => ChildKinds(n) \subseteq {"VerdictNode"}
    /\ (Built("TaskNode") /\ "VerdictNode" \in GivenKinds) =>
          lastBuild.error = "ValueError"
    /\ (lastBuild.call.op \in JudgementKinds /\ ~(GivenKinds \subseteq {"VerdictNode"})) =>
          lastBuild.error \in {"TypeError", "ValueError"}

\* a Task Node has been built over a judgment node that was built over a
\* Verdict Node
C29_Witness ==
    /\ Built("TaskNode")
    /\ lastBuild.error = NoError
    /\ nodes[Len(nodes)].kind = "TaskNode"
    /\ ChildKinds(Len(nodes)) \subseteq JudgementKinds
    /\ \E j \in Given : ChildKinds(j) = {"VerdictNode"}

-----------------------------------------------------------------------------
(* C30 *)

\* what construction has fixed of node object x: its class, its children
\* list, its parent links, its stored verdict and options, its score and its
\* child
Shape(x) ==
    [kind |-> x.kind, children |-> x.children, _parent |-> x._parent,
     _parents |-> x._parents, verdict |-> x.verdict,
     _verdict_options |-> x._verdict_options, score |-> x.score,
     child |-> x.child]

\* the fields of a node of class kind that its entry points write
Written(kind) ==
    IF kind = "VerdictNode" THEN {"_indegree"}
    ELSE IF kind = "TaskNode" THEN {"_indegree", "_depth", "_output"}
    ELSE {"_indegree", "_depth", "_verdict"}

\* C30: no step of a run, in either mode, adds or removes a node or changes
\* the shape of one, or a metric that is stored in a node; of a node it
\* changes at most the dependency count, the resolved depth and the task
\* output or the judgment verdict result, and of the host metric nothing but
\* the score, the reason, the cost and the log.
C30_ExecutionKeepsTheShape ==
    [][/\ NodeIds' = NodeIds
       /\ \A n \in NodeIds :
             /\ Shape(nodes'[n]) = Shape(nodes[n])
             /\ \A fld \in DOMAIN nodes[n] \ Written(nodes[n].kind) :
                   mode' = mode => nodes'[n][fld] = nodes[n][fld]
       /\ \A v \in Holders : nodes'[The(nodes[v].child)] = nodes[The(nodes[v].child)]
       /\ [metric' EXCEPT !.score = metric.score, !.reason = metric.reason,
                          !.evaluation_cost = metric.evaluation_cost,
                          !._verbose_steps = metric._verbose_steps] = metric]_vars

\* a concurrent run of the root has ended: counts, depths, an output and a
\* verdict result have been written, and every node has the shape
\* construction gave it
C30_Witness ==
    /\ mode = "async"
    /\ RootRunEnded
    /\ tasks[1].status = "done"
    /\ \E n \in NodeIds : nodes[n]._output # {}
    /\ \E n \in NodeIds : nodes[n]._verdict # {} /\ nodes[n]._depth >= 1
    /\ \E n \in NodeIds : nodes[n]._indegree # K(n)
    /\ metric.score # {}
    /\ \A n \in NodeIds : Shape(nodes[n]) = Shape(Constructed(scenario)[n])

-----------------------------------------------------------------------------
(* C31 *)

\* the run of the root has ended without an error, with a score
RootRunDone == RootRunEnded /\ tasks[1].status = "done" /\ metric.score # {}

\* C31 as stated: when a run with include_reason ends, the reason the host
\* metric is left with was written by the Verdict Node that wrote the score
\* it is left with, and, for a terminal leaf, was generated from that score.
C31_ReasonFromFinalScoreWriter ==
    (RootRunDone /\ metric.include_reason /\ ModelReturns) =>
        /\ stats.lastReason = stats.lastScore
        /\ \A v \in stats.lastScore : nodes[v].score # {} =>
              \A r \in metric.reason : r.score = metric.score

-----------------------------------------------------------------------------
(* C32 *)

\* `for parent in self._parents: if isinstance(parent, TaskNode)`: the
\* parents whose output the payload of n puts into its prompt
TaskParents(h, n) ==
    {h[n]._parents[i] : i \in DOMAIN h[n]._parents} \cap
    {p \in DOMAIN h : h[p].kind = "TaskNode"}

\* what `parent._output` gives the payload of n for each of those parents
GatheredOutputs(h, n) == [p \in TaskParents(h, n) |-> h[p]._output]

\* what `self._parent._verdict` gives the gate of Verdict Node v
GateVerdict(h, v) == h[The(h[v]._parent)]._verdict

\* this step evaluates the gate of Verdict Node v: v is entered, its counter
\* lets it through and its parent is a judgment node
GateReads(v) ==
    /\ nodes[v].kind = "VerdictNode"
    /\ Arrives(v)
    /\ ~StillPending(decrement_indegree(nodes, v), v)
    /\ HasJudgementParent(nodes, v)

\* C32: in a run started by one invocation of the root, the output a payload
\* reads from a parent Task Node while gathering its context, and the
\* resolved verdict the gate of a Verdict Node reads from its owning judgment
\* node, have been set by the payload of that parent: neither is ever the
\* unset initial value.
C32_ReadsSeeTheParentsResult ==
    [][RootRun =>
        \A n \in NodeIds :
            /\ (Fires(n) /\ nodes[n].kind \in CompositeKinds) =>
                  \A p \in TaskParents(nodes, n) :
                      /\ GatheredOutputs(nodes, n)[p] # {}
                      /\ stats.fired[p] >= 1
            /\ GateReads(n) =>
                  /\ GateVerdict(nodes, n) # {}
                  /\ stats.fired[The(nodes[n]._parent)] >= 1]_vars

\* a run of the root, in either mode, in which a judgment node under a Task
\* Node has run its payload with the Task Node's output in its context, and a
\* Verdict Node below it has evaluated its gate
C32_Witness ==
    /\ RootRun
    /\ \E n \in NodeIds :
          /\ nodes[n].kind \in JudgementKinds
          /\ stats.fired[n] >= 1
          /\ TaskParents(nodes, n) # {}
          /\ \E v \in Successors(n) :
                /\ stats.arrivals[v] >= 1
                /\ GateVerdict(nodes, v) # {}

-----------------------------------------------------------------------------
(* C33 *)

\* the frames of all tasks that are calls of the entry point of node x
CallsOf(tk, x) ==
    SumOver([t \in DOMAIN tk |->
                Cardinality({i \in DOMAIN tk[t].stack : tk[t].stack[i].node = x})],
            DOMAIN tk)

\* C33: the step in which a Verdict Node whose child is a plain node of the
\* graph is taken leaves the host metric as it was (no fragment appended to
\* the verbose log, no score, reason or cost written); in the heap it only
\* decrements the Verdict Node's own counter; and it makes exactly one call,
\* of the entry point of the nested child, in the task that runs it.  The
\* Verdict Node never counts as the writer of a score or a reason.
C33_WrapperOnlyForwards ==
    [][\A v \in Wrapping :
          /\ stats'.scoreWrites[v] = 0
          /\ stats'.reasonWrites[v] = 0
          /\ Fires(v) =>
                /\ metric' = metric
                /\ nodes' = [nodes EXCEPT ![v]._indegree = @ - 1]
                /\ stats'.forwarded[v] = stats.forwarded[v] + 1
                /\ stats'.invocations = stats.invocations
                /\ Len(tasks') = Len(tasks)
                /\ CallsOf(tasks', The(nodes[v].child)) =
                       CallsOf(tasks, The(nodes[v].child)) + 1
                /\ \A x \in NodeIds \ nodes[v].child :
                       CallsOf(tasks', x) = CallsOf(tasks, x)]_vars

\* a taken Verdict Node with a plain node child has forwarded its arrival
\* and the child has run its payload, in a host metric that holds a log
C33_Witness ==
    \E v \in Wrapping :
        /\ stats.fired[v] >= 1
        /\ stats.forwarded[v] = 1
        /\ stats.fired[The(nodes[v].child)] >= 1
        /\ metric._verbose_steps # <<>>

-----------------------------------------------------------------------------
(* The OpenTelemetry span exporter (src/deepeval/tracing/otel/exporter.py). *)
(* A str is a token; a JSON text is <<"json", obj>> for the encoding of    *)
(* obj and <<"text", s>> for a text that is no JSON; an attribute that is  *)
(* absent from span.attributes is {}.                                      *)

\* how many spans one batch holds at most, and how many tool calls one span
MaxSpans == 2
MaxTools == 2

Json(obj) == <<"json", obj>>

NotJson == <<"text", "{oops">>

\* cls.model_validate_json(text) of pydantic: the object the text encodes,
\* or ValidationError when the text is no JSON or encodes another class
model_validate_json(cls, text) ==
    IF text[1] = "json" /\ text[2].cls = cls
    THEN [raised |-> FALSE, value |-> {text[2]}]
    ELSE [raised |-> TRUE, value |-> {}]

HexDigits == <<"0", "1", "2", "3", "4", "5", "6", "7", "8", "9",
               "a", "b", "c", "d", "e", "f">>

RECURSIVE Hex(_)
Hex(n) == IF n < 16 THEN <<HexDigits[n + 1]>>
          ELSE Append(Hex(n \div 16), HexDigits[(n % 16) + 1])

\* to_hex_string(id, length): the id in hexadecimal, padded with zeros on
\* the left to `length` characters; `zeros` is the length of the padding
to_hex_string(id, length) ==
    [zeros |-> Max(0, length - Len(Hex(id))), digits |-> Hex(id)]

\* the span types _prepare_boilerplate_base_span has a branch for
TypedSpans == {"llm", "agent", "retriever", "tool"}

\* an opentelemetry ReadableSpan, as far as export reads it.  `span_type`,
\* `feedback`, `trace_attributes`, `tools_called` and `test_case` are the
\* attributes of these names; `typed_ok` tells whether the constructor of the
\* typed span accepts the attributes of the type (model, name, embedder, ...)
\* and `attributes_ok` whether set_attributes accepts the rest.
ReadableSpan(span_id, trace_id, parent, status_code) ==
    [span_id |-> span_id, trace_id |-> trace_id, parent |-> parent,
     status_code |-> status_code, span_type |-> {}, typed_ok |-> TRUE,
     attributes_ok |-> TRUE, feedback |-> {}, trace_attributes |-> {},
     tools_called |-> <<>>, test_case |-> [input |-> {}, actual_output |-> {},
                                            context |-> {}],
     environment |-> {}]

\* TraceSpanStatus.ERRORED if span.status.status_code == StatusCode.ERROR
\* else TraceSpanStatus.SUCCESS
SpanStatus(span) ==
    IF span.status_code = "ERROR" THEN "ERRORED" ELSE "SUCCESS"

\* to_hex_string(span.parent.span_id, 16) if span.parent else None
ParentUuid(span) == {to_hex_string(p, 16) : p \in span.parent}

\* the fields every span class is constructed with
BaseSpan(span_class, span) ==
    [span_class |-> span_class,
     uuid |-> to_hex_string(span.span_id, 16),
     status |-> SpanStatus(span),
     children |-> <<>>,
     trace_uuid |-> to_hex_string(span.trace_id, 32),
     parent_uuid |-> ParentUuid(span),
     attributes |-> FALSE,
     feedback |-> {}, llm_test_case |-> {}]

\* a preparation whose typed constructors accept everything
prepare_boilerplate_base_span_lenient(span) ==
    LET span_type == IF span.span_type = {} THEN "base" ELSE The(span.span_type)
    IN  IF span_type \notin TypedSpans THEN [raised |-> FALSE, value |-> {}]
        ELSE [raised |-> FALSE,
              value |-> {[BaseSpan(span_type, span) EXCEPT
                            !.attributes = span.attributes_ok]}]

\* _prepare_boilerplate_base_span: the typed span of a supported type, with
\* its attributes when set_attributes accepts them (its errors are printed);
\* None for any other type; the constructor of the typed span may raise
prepare_boilerplate_base_span(span) ==
    LET span_type == IF span.span_type = {} THEN "base" ELSE The(span.span_type)
    IN  IF span_type \notin TypedSpans THEN [raised |-> FALSE, value |-> {}]
        ELSE IF ~span.typed_ok THEN [raised |-> TRUE, value |-> {}]
        ELSE [raised |-> FALSE,
              value |-> {[BaseSpan(span_type, span) EXCEPT
                            !.attributes = span.attributes_ok]}]

\* the feedback of the span: None when the attribute is absent or does not
\* validate (the ValidationError is printed)
SpanFeedback(span) ==
    IF span.feedback = {} THEN {}
    ELSE model_validate_json("Feedback", The(span.feedback)).value

\* the tool calls of the list attribute that validate, in their order
RECURSIVE ToolCalls(_)
ToolCalls(attr) ==
    IF attr = <<>> THEN <<>>
    ELSE LET r == model_validate_json("ToolCall", Head(attr))
         IN  (IF r.raised THEN <<>> ELSE <<The(r.value)>>) \o ToolCalls(Tail(attr))

\* validate_llm_test_case_data raises for a context that is no list of str
TestCaseDataValid(tc) == tc.context \subseteq {"list of str"}

\* the LLMTestCase of the span: built when input and actual_output are both
\* given and the data validates, None otherwise (the error is printed)
SpanTestCase(span) ==
    LET tc == span.test_case
    IN  IF tc.input # {} /\ tc.actual_output # {} /\ TestCaseDataValid(tc)
        THEN {[input |-> The(tc.input), actual_output |-> The(tc.actual_output),
               context |-> tc.context,
               tools_called |-> ToolCalls(span.tools_called)]}
        ELSE {}

\* the TraceAttributes of the span, None when absent or not valid
SpanTraceAttributes(span) ==
    IF span.trace_attributes = {} THEN {}
    ELSE model_validate_json("TraceAttributes", The(span.trace_attributes)).value

\* _convert_readable_span_to_base_span
convert_readable_span_to_base_span(span) ==
    LET prepared == prepare_boilerplate_base_span(span)
        base_span == IF prepared.value # {} THEN The(prepared.value)
                     ELSE BaseSpan("base", span)
    IN  [base_span |-> [base_span EXCEPT
                           !.parent_uuid = ParentUuid(span),
                           !.llm_test_case = SpanTestCase(span),
                           !.feedback = SpanFeedback(span)],
         trace_attributes |-> SpanTraceAttributes(span)]

\* ---- the trace manager (deepeval.tracing.trace_manager) ----
\* active_traces and active_spans are dicts keyed by uuid, kept as the
\* sequences of their values in insertion order; `traces` is the store of
\* the traces started, by uuid; `ended` lists the traces end_trace has ended.

Trace(trace_uuid) ==
    [uuid |-> trace_uuid, status |-> "IN_PROGRESS", confident_api_key |-> {},
     attributes |-> {}, spans |-> <<>>, end_time |-> FALSE]

\* the positions of the values of key uuid in a dict
Keyed(dict, uuid) == {k \in DOMAIN dict : dict[k].uuid = uuid}

\* trace_manager.get_trace_by_uuid: the active trace of that uuid, or None
get_trace_by_uuid(tm, trace_uuid) ==
    {tm.active_traces[k] : k \in Keyed(tm.active_traces, trace_uuid)}

\* dict[uuid] = value: in place for a key the dict has, at the end otherwise
Put(dict, value) ==
    IF Keyed(dict, value.uuid) = {} THEN Append(dict, value)
    ELSE [k \in DOMAIN dict |->
            IF dict[k].uuid = value.uuid THEN value ELSE dict[k]]

\* trace_manager.start_new_trace(trace_uuid=...)
start_new_trace(tm, trace_uuid) ==
    [tm EXCEPT !.active_traces = Put(@, Trace(trace_uuid)),
               !.traces = Append(@, trace_uuid)]

\* trace_manager.add_span
add_span(tm, span) == [tm EXCEPT !.active_spans = Put(@, span)]

\* trace_manager.add_span_to_trace: the span joins the active trace of its
\* trace_uuid
add_span_to_trace(tm, span) ==
    LET joined(trace) ==
            IF trace.uuid = span.trace_uuid
            THEN [trace EXCEPT !.spans = Append(@, span.uuid)]
            ELSE trace
    IN  [tm EXCEPT !.active_traces =
            [k \in DOMAIN tm.active_traces |-> joined(tm.active_traces[k])]]

\* set_trace_time(trace) followed by trace_manager.end_trace(trace_key): the
\* trace gets its times and its final status and leaves active_traces
end_trace(tm, trace_key) ==
    IF get_trace_by_uuid(tm, trace_key) = {} THEN tm
    ELSE LET trace == The(get_trace_by_uuid(tm, trace_key))
         IN  [tm EXCEPT
                !.active_traces = SelectSeq(@, LAMBDA tr : tr.uuid # trace_key),
                !.ended = Append(@, [trace EXCEPT !.end_time = TRUE,
                                                  !.status = "SUCCESS"])]

\* trace_manager.clear_traces
clear_traces(tm) == [tm EXCEPT !.traces = <<>>]

\* ---- ConfidentSpanExporter.export ----

\* reversed(spans_wrappers_list)[i]
Reversed(s, i) == s[Len(s) + 1 - i]

\* a loop that takes the wrappers in the order of the batch
NextWrapper_inputOrder(s, i) == s[i]

\* `for base_span_wrapper in reversed(spans_wrappers_list)`: the wrapper of
\* the i-th turn of the loop
NextWrapper(s, i) == Reversed(s, i)

\* a lookup that never finds the active trace
CurrentTrace_alwaysNew(tm, trace_uuid) == start_new_trace(tm, trace_uuid)

\* current_trace = get_trace_by_uuid(...); if not current_trace:
\* current_trace = start_new_trace(...): the trace manager afterwards
CurrentTrace(tm, trace_uuid) ==
    IF get_trace_by_uuid(tm, trace_uuid) = {} THEN start_new_trace(tm, trace_uuid)
    ELSE tm

\* the writes to current_trace: the api key when one is given, and name,
\* tags, thread_id and user_id when the span carries trace attributes
WriteTrace(tm, trace_uuid, api_key, trace_attributes) ==
    LET written(trace) ==
            IF trace.uuid = trace_uuid
            THEN [trace EXCEPT
                    !.confident_api_key = IF api_key # {} THEN api_key ELSE @,
                    !.attributes = IF trace_attributes # {} THEN trace_attributes
                                   ELSE @]
            ELSE trace
    IN  [tm EXCEPT !.active_traces =
            [k \in DOMAIN tm.active_traces |-> written(tm.active_traces[k])]]

\* an end of export that leaves the active traces as they are
EndAll_none(tm, keys) == tm

\* `for trace_key in active_traces_keys: ... end_trace(trace_key)`
RECURSIVE EndAll(_, _)
EndAll(tm, keys) ==
    IF keys = <<>> THEN tm ELSE EndAll(end_trace(tm, Head(keys)), Tail(keys))

\* list(trace_manager.active_traces.keys())
ActiveKeys(tm) == [k \in DOMAIN tm.active_traces |-> tm.active_traces[k].uuid]

\* export is called with a batch: the state before the first loop
export_called(spans, api_key) ==
    /\ exporter.pc = "idle"
    /\ exporter' = [exporter EXCEPT !.pc = "convert", !.spans = spans,
                                    !.api_key = api_key, !.i = 1]
    /\ UNCHANGED <<trace_manager, ollama, dagVars>>

\* one turn of `for span in spans`: the configuration the resource carries
\* goes to the trace manager, the converted span to spans_wrappers_list
export_converts ==
    /\ exporter.pc = "convert"
    /\ IF exporter.i <= Len(exporter.spans)
       THEN LET span == exporter.spans[exporter.i]
            IN  /\ exporter' = [exporter EXCEPT
                     !.spans_wrappers_list =
                         Append(@, convert_readable_span_to_base_span(span)),
                     !.i = @ + 1]
                /\ trace_manager' =
                     IF span.environment # {}
                     THEN [trace_manager EXCEPT !.environment = span.environment]
                     ELSE trace_manager
       ELSE /\ exporter' = [exporter EXCEPT !.pc = "add", !.i = 1]
            /\ UNCHANGED trace_manager
    /\ UNCHANGED <<ollama, dagVars>>

\* one turn of `for base_span_wrapper in reversed(spans_wrappers_list)`
export_adds ==
    /\ exporter.pc = "add"
    /\ IF exporter.i <= Len(exporter.spans_wrappers_list)
       THEN LET w == NextWrapper(exporter.spans_wrappers_list, exporter.i)
                u == w.base_span.trace_uuid
                tm1 == CurrentTrace(trace_manager, u)
                tm2 == WriteTrace(tm1, u, exporter.api_key, w.trace_attributes)
            IN  /\ trace_manager' =
                     add_span_to_trace(add_span(tm2, w.base_span), w.base_span)
                /\ exporter' = [exporter EXCEPT
                     !.i = @ + 1,
                     !.started = IF Len(tm1.traces) > Len(trace_manager.traces)
                                 THEN Append(@, u) ELSE @,
                     !.added = Append(@, w.base_span)]
       ELSE /\ exporter' = [exporter EXCEPT !.pc = "end"]
            /\ UNCHANGED trace_manager
    /\ UNCHANGED <<ollama, dagVars>>

\* the end of export: every active trace is ended, the store is cleared and
\* SUCCESS is returned
export_returns ==
    /\ exporter.pc = "end"
    /\ trace_manager' =
         clear_traces(EndAll(trace_manager, ActiveKeys(trace_manager)))
    /\ exporter' = [exporter EXCEPT !.pc = "returned", !.result = {"SUCCESS"}]
    /\ UNCHANGED <<ollama, dagVars>>

\* ---- the batches export is called with ----

SpanTypes == {{}, {"custom"}} \cup {{ty} : ty \in TypedSpans}

Feedbacks ==
    {{}, {Json([cls |-> "Feedback", rating |-> 1])}, {NotJson},
     {Json([cls |-> "ToolCall", name |-> "search"])}}

TraceAttributeTexts ==
    {{}, {Json([cls |-> "TraceAttributes", name |-> "checkout"])}, {NotJson}}

ToolCallTexts == {Json([cls |-> "ToolCall", name |-> "search"]), NotJson}

TestCases ==
    {[input |-> {}, actual_output |-> {}, context |-> {}],
     [input |-> {"q"}, actual_output |-> {}, context |-> {}],
     [input |-> {"q"}, actual_output |-> {"a"}, context |-> {"list of str"}],
     [input |-> {"q"}, actual_output |-> {"a"}, context |-> {"a str"}]}

\* one span of trace 1 with every combination of type, of what the
\* constructors accept, and of well-formed, malformed and absent attributes
DetailedSpans ==
    {[ReadableSpan(1, 1, parent, status_code) EXCEPT
         !.span_type = ty, !.typed_ok = ok[1], !.attributes_ok = ok[2],
         !.feedback = fb, !.trace_attributes = ta, !.tools_called = tools,
         !.test_case = tc] :
       parent \in {{}, {2}}, status_code \in {"OK", "ERROR"},
       ty \in SpanTypes,
       ok \in {<<TRUE, TRUE>>, <<TRUE, FALSE>>, <<FALSE, TRUE>>},
       fb \in Feedbacks, ta \in TraceAttributeTexts,
       tools \in SeqsUpTo(ToolCallTexts, MaxTools), tc \in TestCases}

\* spans of two traces, roots and children, with and without trace
\* attributes and configuration
PlainSpans ==
    {[ReadableSpan(span_id, trace_id, parent, "OK") EXCEPT
         !.trace_attributes = ta,
         !.environment = IF span_id = 2 THEN {"staging"} ELSE {}] :
       span_id \in 1..2, trace_id \in 1..2, parent \in {{}, {1}},
       ta \in {{}, {Json([cls |-> "TraceAttributes", name |-> "checkout"])}}}

ApiKeys == {{}, {"confident-key"}}

\* the calls of export: batches of plain spans with or without an api key,
\* and batches of one detailed span
ExportCalls ==
    (SeqsUpTo(PlainSpans, MaxSpans) \X ApiKeys)
        \cup ({<<s>> : s \in DetailedSpans} \X {{}})

\* the trace manager when export is called: nothing traced, or a trace of
\* the process itself still active, with the uuid of trace 1 or another one
TraceManagers ==
    {NoTraces} \cup
    {[NoTraces EXCEPT
        !.active_traces = <<[Trace(to_hex_string(id, 32)) EXCEPT
                                !.spans = <<to_hex_string(7, 16)>>]>>,
        !.traces = <<to_hex_string(id, 32)>>] : id \in {1, 3}}

InitExport ==
    /\ DagIdle
    /\ ollama = IdleOllama
    /\ exporter = IdleExport
    /\ trace_manager \in TraceManagers

NextExport ==
    \/ exporter.pc = "idle" /\ \E c \in ExportCalls : export_called(c[1], c[2])
    \/ export_converts
    \/ export_adds
    \/ export_returns

SpecExport == InitExport /\ [][NextExport]_vars


-----------------------------------------------------------------------------
(* C34 *)

\* the uuids of the traces in a dict or list of traces
Uuids(traces) == {traces[k].uuid : k \in DOMAIN traces}

\* this step is the return of export
ExportReturns == exporter.pc # "returned" /\ exporter'.pc = "returned"

-----------------------------------------------------------------------------
(* C35 *)

\* this step adds a span to the trace manager
AddsSpan == Len(exporter'.added) = Len(exporter.added) + 1

-----------------------------------------------------------------------------
(* C36 *)

\* the text is not the JSON of an object of class cls
Malformed(cls, text) == text[1] # "json" \/ text[2].cls # cls

\* the entries of a list attribute that are the JSON of a tool call
WellFormedTools(attr) ==
    SelectSeq(attr, LAMBDA text : ~Malformed("ToolCall", text))

\* C36: every span of the batch is converted, whatever it carries.  A span
\* whose type has no typed span class, or whose typed constructor raises,
\* becomes a span of the base class with the span id, trace id, parent id and
\* status of the input; a span of a supported type whose constructor accepts
\* it keeps its type.  Malformed feedback and trace attributes are left unset,
\* test-case data that does not validate leaves the test case unset, and the
\* tool calls of a test case are the well-formed entries of the attribute.
C36_ConversionAbsorbsErrors ==
    /\ exporter.pc \in {"add", "end", "returned"} =>
          Len(exporter.spans_wrappers_list) = Len(exporter.spans)
    /\ \A k \in DOMAIN exporter.spans_wrappers_list :
          LET span == exporter.spans[k]
              w == exporter.spans_wrappers_list[k]
              b == w.base_span
              typed == span.span_type # {} /\ The(span.span_type) \in TypedSpans
          IN  /\ b.uuid = to_hex_string(span.span_id, 16)
              /\ b.trace_uuid = to_hex_string(span.trace_id, 32)
              /\ b.parent_uuid = {to_hex_string(p, 16) : p \in span.parent}
              /\ b.status = IF span.status_code = "ERROR" THEN "ERRORED"
                            ELSE "SUCCESS"
              /\ (~typed \/ ~span.typed_ok) => b.span_class = "base"
              /\ (typed /\ span.typed_ok) => b.span_class = The(span.span_type)
              /\ \A text \in span.feedback :
                    IF Malformed("Feedback", text) THEN b.feedback = {}
                    ELSE b.feedback = {text[2]}
              /\ \A text \in span.trace_attributes :
                    IF Malformed("TraceAttributes", text) THEN w.trace_attributes = {}
                    ELSE w.trace_attributes = {text[2]}
              /\ span.test_case.context \in {{"a str"}} => b.llm_test_case = {}
              /\ \A tc \in b.llm_test_case :
                    /\ Len(tc.tools_called) = Len(WellFormedTools(span.tools_called))
                    /\ \A i \in DOMAIN tc.tools_called :
                          tc.tools_called[i] = WellFormedTools(span.tools_called)[i][2]

\* export has returned for a span whose typed constructor raised and whose
\* feedback, trace attributes and first tool call were malformed: the span
\* was added as a base span with a test case that holds the second tool call
C36_Witness ==
    /\ exporter.pc = "returned"
    /\ Len(exporter.spans) = 1
    /\ exporter.spans[1].span_type = {"llm"}
    /\ ~exporter.spans[1].typed_ok
    /\ exporter.spans[1].feedback = {NotJson}
    /\ exporter.spans[1].trace_attributes = {NotJson}
    /\ Len(exporter.spans[1].tools_called) = 2
    /\ exporter.spans[1].tools_called[1] = NotJson
    /\ Len(exporter.added) = 1
    /\ exporter.added[1].span_class = "base"
    /\ \E tc \in exporter.added[1].llm_test_case : Len(tc.tools_called) = 1


-----------------------------------------------------------------------------
(* The Ollama model (src/deepeval/models/llms/ollama_model.py).  The chat   *)
(* client is the environment: it answers a request with a message content, *)
(* a JSON text or any other text, or raises.                               *)

\* how many calls of generate / a_generate one behaviour makes
MaxGenerations == 2

\* the OllamaModel object: __init__ with a model name, the default base url
\* and temperature 0
OllamaModel == [model_name |-> "llama3", base_url |-> "http://localhost:11434",
                temperature |-> 0]

\* the arguments of chat_model.chat(...)
ChatRequest(self, prompt, schema) ==
    [model |-> self.model_name,
     messages |-> <<[role |-> "user", content |-> prompt]>>,
     format |-> {<<"json schema of", cls>> : cls \in schema},
     options |-> [temperature |-> self.temperature]]

\* a return statement that bills one unit for every answer
OllamaModel_returns_billed(schema, content) ==
    IF schema = {} THEN [raised |-> {}, value |-> {<<content, 1>>}]
    ELSE LET r == model_validate_json(The(schema), content)
         IN  IF r.raised THEN [raised |-> {"ValidationError"}, value |-> {}]
             ELSE [raised |-> {}, value |-> {<<The(r.value), 1>>}]

\* the return statement of generate and of a_generate:
\* (schema.model_validate_json(content) if schema else content, 0)
OllamaModel_returns(schema, content) ==
    IF schema = {} THEN [raised |-> {}, value |-> {<<content, 0>>}]
    ELSE LET r == model_validate_json(The(schema), content)
         IN  IF r.raised THEN [raised |-> {"ValidationError"}, value |-> {}]
             ELSE [raised |-> {}, value |-> {<<The(r.value), 0>>}]

\* what the call leaves when chat has answered with `response` (a content,
\* or the error chat raised)
Answered(o, response) ==
    IF response.error # {}
    THEN [o EXCEPT !.pc = "raised", !.response = {response},
                   !.raised = response.error]
    ELSE LET r == OllamaModel_returns(o.schema, The(response.content))
         IN  [o EXCEPT !.pc = IF r.raised # {} THEN "raised" ELSE "returned",
                       !.response = {response},
                       !.returned = r.value, !.raised = r.raised]

Prompts == {"task prompt", "verdict prompt"}

Schemas == {{}, {"TaskNodeOutput"}, {"BinaryJudgementVerdict"}}

ChatResponses ==
    {[content |-> {c}, error |-> {}] :
        c \in {Json([cls |-> "TaskNodeOutput", output |-> "summary"]),
               Json([cls |-> "BinaryJudgementVerdict", verdict |-> "True"]),
               NotJson, <<"text", "plain answer">>}}
    \cup {[content |-> {}, error |-> {"ConnectionError"}]}

\* the state of a call that has sent its request
Requested(o, method, prompt, schema) ==
    [o EXCEPT !.pc = "chat", !.method = method, !.calls = @ + 1,
              !.request = {ChatRequest(OllamaModel, prompt, schema)},
              !.schema = schema, !.response = {}, !.returned = {},
              !.raised = {}, !.res = {}]

\* OllamaModel.generate: the request, the answer of the client and the return
OllamaModel_generate(prompt, schema, response) ==
    /\ ollama.pc = "idle"
    /\ ollama.calls < MaxGenerations
    /\ ollama' = Answered(Requested(ollama, "generate", prompt, schema), response)
    /\ UNCHANGED <<metric, nodes, lastBuild, model, scenario, mode, tasks, ready,
                   calls, stats, syncFinal, trace_manager, exporter>>

\* OllamaModel.a_generate up to `await chat_model.chat(...)`
OllamaModel_a_generate(prompt, schema) ==
    /\ ollama.pc = "idle"
    /\ ollama.calls < MaxGenerations
    /\ ollama' = Requested(ollama, "a_generate", prompt, schema)
    /\ UNCHANGED <<metric, nodes, lastBuild, model, scenario, mode, tasks, ready,
                   calls, stats, syncFinal, trace_manager, exporter>>

\* the awaited chat answers: the rest of a_generate
a_chat_returns(response) ==
    /\ ollama.pc = "chat"
    /\ ollama' = Answered(ollama, response)
    /\ UNCHANGED <<metric, nodes, lastBuild, model, scenario, mode, tasks, ready,
                   calls, stats, syncFinal, trace_manager, exporter>>

\* metric.evaluation_cost += cost
Accumulate(m, cost) == [m EXCEPT !.evaluation_cost = @ + cost]

\* the native model invocation block of a payload that called the model
\* (nodes.py): `res, cost = metric.model.generate(prompt, schema=...)`, then
\* `metric.evaluation_cost += cost`, and the payload keeps res
NativeInvocationBlock ==
    /\ ollama.pc = "returned"
    /\ metric.using_native_model
    /\ LET pair == The(ollama.returned)
       IN  /\ metric' = Accumulate(metric, pair[2])
           /\ ollama' = [ollama EXCEPT !.pc = "idle", !.res = {pair[1]}]
    /\ UNCHANGED <<nodes, lastBuild, model, scenario, mode, tasks, ready,
                   calls, stats, syncFinal, trace_manager, exporter>>

\* the error of a call goes up through the payload to the caller of the DAG
InvocationRaises ==
    /\ ollama.pc = "raised"
    /\ ollama' = [ollama EXCEPT !.pc = "idle"]
    /\ UNCHANGED <<metric, nodes, lastBuild, model, scenario, mode, tasks, ready,
                   calls, stats, syncFinal, trace_manager, exporter>>

\* the cost totals a host metric on the native path may hold before a call
CostsSoFar == {0, 4}

InitOllama ==
    /\ nodes = <<>>
    /\ lastBuild = IdleBuild
    /\ scenario = [prog |-> <<>>, root |-> 0]
    /\ model = [convention |-> "native", verdicts |-> <<>>, failing |-> {},
                unparsable |-> {}]
    /\ metric \in {[MetricInit(FALSE, "native") EXCEPT !.evaluation_cost = c] :
                      c \in CostsSoFar}
    /\ mode = "sync"
    /\ tasks = <<>>
    /\ ready = <<>>
    /\ calls = <<>>
    /\ stats = ZeroStats(nodes)
    /\ syncFinal = {}
    /\ trace_manager = NoTraces
    /\ exporter = IdleExport
    /\ ollama = IdleOllama

NextOllama ==
    \/ \E p \in Prompts, s \in Schemas, r \in ChatResponses :
          OllamaModel_generate(p, s, r)
    \/ \E p \in Prompts, s \in Schemas : OllamaModel_a_generate(p, s)
    \/ \E r \in ChatResponses : a_chat_returns(r)
    \/ NativeInvocationBlock
    \/ InvocationRaises

SpecOllama == InitOllama /\ [][NextOllama]_vars

-----------------------------------------------------------------------------
(* C37 *)

\* C37: generate and a_generate answer in the native calling convention: what
\* either returns is a pair whose second component, the cost, is 0; with a
\* schema the first component is the object of that schema the response
\* content encodes, without one it is the response content itself; a call
\* raises only when the client raised or the content does not validate
\* against the schema.  A payload that adds the returned cost leaves the cost
\* total of the host metric as it was.
C37_OllamaIsNativeAndFree ==
    [][/\ \A pair \in ollama'.returned :
            LET content == The(The(ollama'.response).content)
            IN  /\ Len(pair) = 2
                /\ pair[2] = 0
                /\ ollama'.schema = {} => pair[1] = content
                /\ \A cls \in ollama'.schema :
                      /\ pair[1].cls = cls
                      /\ Json(pair[1]) = content
       /\ ollama'.pc = "returned" => Cardinality(ollama'.returned) = 1
       /\ ollama'.pc = "raised" =>
            \/ The(ollama'.response).error # {}
            \/ \E cls \in ollama'.schema :
                  Malformed(cls, The(The(ollama'.response).content))
       /\ metric'.evaluation_cost = metric.evaluation_cost]_vars

\* a host metric with a cost total has taken the results of two calls, one
\* with a schema through generate and one without through a_generate
C37_Witness ==
    /\ metric.evaluation_cost = 4
    /\ ollama.calls = 2
    /\ ollama.pc = "idle"
    /\ ollama.method = "a_generate"
    /\ ollama.schema = {}
    /\ ollama.res = {<<"text", "plain answer">>}

=============================================================================
